---- MODULE Spec2Model ----
(***************************************************************************)
(* Selenium-MCP-server: the agent loop of MCPOpenAIClient.process_query    *)
(* (src/openai_client.py) and the browser session lifecycle of             *)
(* SeleniumMCPServer (src/server.py).                                      *)
(*                                                                         *)
(* Python values are modelled as follows.  A str is a tuple of characters  *)
(* wrapped as [str |-> <<...>>] where it is stored under a key that can    *)
(* also hold a list ("content"), and a bare tuple of characters where the  *)
(* key always holds a str ("output", "arguments").  A list stored under    *)
(* "content" is [list |-> <<...>>].  A dict is a record.                    *)
(***************************************************************************)
EXTENDS Integers, Sequences, FiniteSets, TLC

(***************************************************************************)
(* Bounds of the exploration.                                              *)
(***************************************************************************)
\* queries a caller issues in one session
MaxQueries == 2
\* model round-trips a caller allows over one session (the sum of the
\* max_iterations it passes never exceeds it)
MaxRounds == 2
\* browser sessions the server creates over its life
MaxSessions == 2
\* actions a caller records before it resets the recording
MaxRecorded == 2

(***************************************************************************)
(* Strings.                                                                *)
(***************************************************************************)
Base64Prefix == <<"b", "a", "s", "e", "6", "4", ",">>
\* a comparison that leaves out the last character of the prefix
startswith_short(s, prefix) ==
    /\ Len(s) >= Len(prefix) - 1
    /\ SubSeq(s, 1, Len(prefix) - 1) = SubSeq(prefix, 1, Len(prefix) - 1)

\* str.startswith
startswith(s, prefix) ==
    /\ Len(s) >= Len(prefix)
    /\ SubSeq(s, 1, Len(prefix)) = prefix

RECURSIVE join(_, _)
\* sep.join(pieces)
join(sep, pieces) ==
    IF pieces = <<>> THEN <<>>
    ELSE IF Len(pieces) = 1 THEN pieces[1]
    ELSE pieces[1] \o sep \o join(sep, Tail(pieces))

Str(s) == [str |-> s]
List(l) == [list |-> l]
\* str(x): a str is returned as it is, anything else is rendered
PyStr(x) == IF "str" \in DOMAIN x THEN x.str ELSE <<[repr |-> x]>>

(***************************************************************************)
(* The environment: the caller's queries, the model's outputs and the      *)
(* tool results that come back over the transport.                         *)
(***************************************************************************)
\* the n-th query of the session and the text of the n-th model round of the
\* session: every query and every model text is different from the others
QueryText(n) == <<"q", n>>
ModelText(n) == <<"a", n>>

FunctionCallItem(id, args) ==
    [type |-> "function_call", call_id |-> id, name |-> "click", arguments |-> args]
TextItem(n) ==
    [type |-> "message", content |-> <<[type |-> "output_text", text |-> ModelText(n)]>>]
RefusalItem(n) ==
    [type |-> "message", content |-> <<[type |-> "refusal", refusal |-> ModelText(n)]>>]
ReasoningItem(n) == [type |-> "reasoning", id |-> n]

ValidJson == <<"{", "}">>
InvalidJson == <<"{">>
\* json.loads succeeds
json_loads_ok(arguments) == arguments = ValidJson

\* response.output of model round n, whose function calls get ids from id on
ModelOutputs(n, id) ==
    { <<>>,
      <<TextItem(n)>>,
      <<RefusalItem(n)>>,
      <<ReasoningItem(n)>>,
      <<TextItem(n), ReasoningItem(n)>>,
      <<FunctionCallItem(id, ValidJson)>>,
      <<FunctionCallItem(id, InvalidJson)>>,
      <<TextItem(n), FunctionCallItem(id, ValidJson)>>,
      <<FunctionCallItem(id, ValidJson), FunctionCallItem(id + 1, ValidJson)>> }

\* an image payload, and a plain text that is the prefix without its comma
Image == Base64Prefix \o <<"A", "A", "A", "A">>
Plain == <<"b", "a", "s", "e", "6", "4">>
\* result.content of call_tool, as the texts of its pieces
ToolResults ==
    { <<Plain>>, <<Image>>, <<Image, Plain>>, <<Plain, Image, Plain>> }

(***************************************************************************)
(* State.                                                                  *)
(***************************************************************************)
VARIABLES
    messages,        \* self.messages
    pc,              \* where process_query is suspended: idle, tools, model, tool
    reset_messages,  \* argument of the running process_query
    max_iterations,  \* argument of the running process_query
    iterations,      \* local of process_query
    function_calls,  \* local of process_query
    idx,             \* position of the for loop over function_calls (1-based)
    outcome,         \* how the last process_query ended
    inflight,        \* call_tool requests sent and not yet answered
    issued,          \* call_ids of the call_tool requests of this round, in order
    model_calls,     \* model calls made by this query
    dispatches,      \* call_tool requests sent by this query
    emitted,         \* function_call items the model emitted in this query
    base,            \* self.messages when process_query was called
    next_id,         \* next fresh call_id the model will use
    queries,         \* process_query calls made so far
    rounds,          \* sum of the max_iterations granted so far
    call_rounds,     \* model rounds of this query that held a function call
    last_result,     \* the texts of the last call_tool result received
    previous,        \* how the process_query before this one ended
    fault            \* the await of this query that failed, if any

VARIABLES
    browser,         \* self.browser
    driver,          \* self.driver: None, or the handle of a session
    sessions,        \* the browser sessions that are alive
    created,         \* browser sessions created so far
    last_action,     \* self.last_action
    op,              \* the handler the server ran last, with its arguments
    result           \* what that handler returned or raised

VARIABLES
    advanced_tools_enabled,  \* self.advanced_tools_enabled
    tools,                   \* the tools registered with self.mcp, in order
    timeout,                 \* self.timeout
    waited                   \* the timeout of the WebDriverWait that the last handler
                             \* working on the page built (None: it built none)

VARIABLES
    sequence_recorded,  \* self.sequence_recorded
    files,              \* the files of self.recordings_dir, by the second they are named after
    saved,              \* the sequence each file was last saved from
    invoked,            \* the handler calls the last play_recording made, in order
    failed              \* the first of those calls that failed (0: none did)

VARIABLES
    page_source         \* self.driver.page_source, parsed: the elements of the page

VARIABLES
    tasks               \* the locals of the process_query calls that overlap on one client

tiervars == <<advanced_tools_enabled, tools>>
taskvars == <<tasks>>
pagevars == <<page_source>>
recvars == <<sequence_recorded, files, saved, invoked, failed>>

srvvars == <<browser, driver, sessions, created, last_action, op, result,
             timeout, waited, tiervars, recvars, pagevars>>

loopvars == <<messages, pc, reset_messages, max_iterations, iterations,
              function_calls, idx, outcome, inflight, issued, model_calls,
              dispatches, emitted, base, next_id, queries, rounds, call_rounds,
              last_result, previous, fault>>

vars == <<loopvars, taskvars, srvvars, taskvars>>

(***************************************************************************)
(* process_query, step by step.                                            *)
(***************************************************************************)
UserTurn(query) == [role |-> "user", content |-> Str(query)]

\* the reset left out
InitialMessages_keep(msgs, reset, query) == msgs \o <<UserTurn(query)>>

\* the conversation dropped whatever the caller asked for
InitialMessages_drop(msgs, reset, query) == <<UserTurn(query)>>

\* the conversation after the optional reset and the append of the user turn
InitialMessages(msgs, reset, query) ==
    (IF reset THEN <<>> ELSE msgs) \o <<UserTurn(query)>>

\* the ceiling tested one pass too early
iteration_limit_reached_early(iters, ceiling) == iters >= ceiling

\* the test of the iteration ceiling, on the incremented counter
iteration_limit_reached(iters, ceiling) == iters > ceiling

\* the turn appended for one item of response.output
ResponseTurn(item) ==
    IF item.type = "function_call"
    THEN [type |-> "function_call", call_id |-> item.call_id,
          name |-> item.name, arguments |-> item.arguments]
    ELSE IF item.type = "message"
    THEN IF Len(item.content) = 1 /\ item.content[1].type = "output_text"
         THEN [role |-> "assistant", content |-> Str(item.content[1].text)]
         ELSE [role |-> "assistant", content |-> List(item.content)]
    ELSE item

\* the items of unknown type dropped
ResponseTurns_known(output) ==
    LET items == SelectSeq(output,
                           LAMBDA item : item.type \in {"function_call", "message"})
    IN  [k \in 1..Len(items) |-> ResponseTurn(items[k])]

\* the turns appended for response.output, in order
ResponseTurns(output) == [k \in 1..Len(output) |-> ResponseTurn(output[k])]

IsFunctionCallItem(item) == item.type = "function_call"
\* only the first function call of the round queued
QueuedCalls_first(output) ==
    LET items == SelectSeq(output, IsFunctionCallItem)
    IN  IF items = <<>> THEN <<>> ELSE <<ResponseTurn(items[1])>>

\* the local list function_calls after the pass over response.output
QueuedCalls(output) ==
    LET items == SelectSeq(output, IsFunctionCallItem)
    IN  [k \in 1..Len(items) |-> ResponseTurn(items[k])]

\* the first piece taken for the whole result
OutputString_first(texts) == texts[1]

\* the single string made of the texts of result.content
OutputString(texts) ==
    IF Len(texts) = 1 THEN texts[1]
    ELSE <<"[">> \o join(<<",", " ">>, texts) \o <<"]">>

Placeholder == <<"Image passed in the next message as an input_image">>
DataUriPrefix == <<"d", "a", "t", "a", ":", "i", "m", "a", "g", "e", "/", "p", "n", "g", ";">>
Caption(call_id) ==
    [fmt |-> "Image returned by function with call id {}", arg |-> call_id]

\* an image result answered by the image turn alone
ToolOutputTurns_image_only(tool_call, texts) ==
    LET output == OutputString(texts)
    IN  IF startswith(output, Base64Prefix)
        THEN << [role |-> "user",
                 content |-> List(<< [type |-> "input_text",
                                      text |-> Caption(tool_call.call_id)],
                                     [type |-> "input_image",
                                      image_url |-> DataUriPrefix \o output] >>)] >>
        ELSE << [type |-> "function_call_output", call_id |-> tool_call.call_id,
                 output |-> output] >>

\* the turns appended for the result of one call_tool
ToolOutputTurns(tool_call, texts) ==
    LET output == OutputString(texts)
    IN  IF startswith(output, Base64Prefix)
        THEN << [type |-> "function_call_output", call_id |-> tool_call.call_id,
                 output |-> Placeholder],
                [role |-> "user",
                 content |-> List(<< [type |-> "input_text",
                                      text |-> Caption(tool_call.call_id)],
                                     [type |-> "input_image",
                                      image_url |-> DataUriPrefix \o output] >>)] >>
        ELSE << [type |-> "function_call_output", call_id |-> tool_call.call_id,
                 output |-> output] >>

\* the value of the return statement
ReturnValue(msgs) ==
    LET last == msgs[Len(msgs)]
    IN  IF "content" \in DOMAIN last THEN PyStr(last.content) ELSE PyStr(last)

\* every remaining call of the round sent at once
ToolCallRequests_all(calls, k) ==
    [j \in 1..(Len(calls) - k + 1) |-> calls[k + j - 1].call_id]

\* the call_tool requests sent when the for loop reaches position k
ToolCallRequests(calls, k) == <<calls[k].call_id>>

NoOutcome == [state |-> "none"]
Running == [state |-> "running"]
Returned(v) == [returned |-> v]
Raised(e) == [raised |-> e]

LoopInit ==
    /\ messages = <<>>
    /\ pc = "idle"
    /\ reset_messages = FALSE
    /\ max_iterations = 0
    /\ iterations = 0
    /\ function_calls = <<>>
    /\ idx = 0
    /\ outcome = NoOutcome
    /\ inflight = <<>>
    /\ issued = <<>>
    /\ model_calls = 0
    /\ dispatches = 0
    /\ emitted = 0
    /\ base = <<>>
    /\ next_id = 1
    /\ queries = 0
    /\ rounds = 0
    /\ call_rounds = 0
    /\ last_result = <<>>
    /\ previous = NoOutcome
    /\ fault = "none"

\* a caller invokes process_query; it suspends on get_mcp_tools
ProcessQuery(reset, ceiling) ==
    /\ pc = "idle"
    /\ queries < MaxQueries
    /\ rounds + ceiling <= MaxRounds
    /\ pc' = "tools"
    /\ reset_messages' = reset
    /\ max_iterations' = ceiling
    /\ queries' = queries + 1
    /\ rounds' = rounds + ceiling
    /\ base' = messages
    /\ outcome' = Running
    /\ iterations' = 0
    /\ function_calls' = <<>>
    /\ idx' = 0
    /\ issued' = <<>>
    /\ model_calls' = 0
    /\ dispatches' = 0
    /\ emitted' = 0
    /\ call_rounds' = 0
    /\ last_result' = <<>>
    /\ previous' = outcome
    /\ fault' = "none"
    /\ UNCHANGED <<messages, inflight, next_id>>

\* the top of one pass of `while True`, up to the await of the model call
LoopTop(iters) ==
    /\ iterations' = iters + 1
    /\ IF iteration_limit_reached(iters + 1, max_iterations)
       THEN /\ pc' = "idle"
            /\ outcome' = Raised("RuntimeError")
            /\ model_calls' = model_calls
       ELSE /\ pc' = "model"
            /\ outcome' = outcome
            /\ model_calls' = model_calls + 1

\* the for loop reaches position k: json.loads, then the call_tool request
Dispatch(calls, k, pending) ==
    IF json_loads_ok(calls[k].arguments)
    THEN /\ pc' = "tool"
         /\ idx' = k
         /\ inflight' = pending \o ToolCallRequests(calls, k)
         /\ issued' = issued \o ToolCallRequests(calls, k)
         /\ dispatches' = dispatches + Len(ToolCallRequests(calls, k))
         /\ outcome' = outcome
    ELSE /\ pc' = "idle"
         /\ idx' = k
         /\ inflight' = pending
         /\ issued' = issued
         /\ dispatches' = dispatches
         /\ outcome' = Raised("json.loads")

\* get_mcp_tools returns: reset, user turn, first pass up to the model call
GetMcpToolsReturns ==
    /\ pc = "tools"
    /\ messages' = InitialMessages(messages, reset_messages, QueryText(queries))
    /\ LoopTop(0)
    /\ UNCHANGED <<reset_messages, max_iterations, function_calls, idx, inflight,
                   issued, dispatches, emitted, base, next_id, queries, rounds,
                   call_rounds, last_result, previous, fault>>

\* get_mcp_tools raises: process_query propagates it before touching anything
GetMcpToolsRaises ==
    /\ pc = "tools"
    /\ pc' = "idle"
    /\ outcome' = Raised("get_mcp_tools")
    /\ fault' = "get_mcp_tools"
    /\ UNCHANGED <<messages, reset_messages, max_iterations, iterations,
                   function_calls, idx, inflight, issued, model_calls, dispatches,
                   emitted, base, next_id, queries, rounds, call_rounds,
                   last_result, previous>>

\* the model answers: its items are appended, then return or first dispatch
ModelReturns(output) ==
    /\ pc = "model"
    /\ messages' = messages \o ResponseTurns(output)
    /\ function_calls' = QueuedCalls(output)
    /\ emitted' = emitted + Len(SelectSeq(output, IsFunctionCallItem))
    /\ next_id' = next_id + Len(SelectSeq(output, IsFunctionCallItem))
    /\ call_rounds' = call_rounds + (IF Len(function_calls') = 0 THEN 0 ELSE 1)
    /\ IF Len(function_calls') = 0
       THEN /\ pc' = "idle"
            /\ outcome' = Returned(ReturnValue(messages'))
            /\ UNCHANGED <<idx, inflight, issued, dispatches>>
       ELSE Dispatch(function_calls', 1, inflight)
    /\ UNCHANGED <<reset_messages, max_iterations, iterations, model_calls, base,
                   queries, rounds, last_result, previous, fault>>

\* the model call raises: process_query propagates it
ModelRaises ==
    /\ pc = "model"
    /\ pc' = "idle"
    /\ outcome' = Raised("responses.create")
    /\ fault' = "responses.create"
    /\ UNCHANGED <<messages, reset_messages, max_iterations, iterations,
                   function_calls, idx, inflight, issued, model_calls, dispatches,
                   emitted, base, next_id, queries, rounds, call_rounds,
                   last_result, previous>>

\* call_tool answers: its output turn(s) are appended, then the next dispatch
\* or, after the last call of the round, the next pass of the loop
CallToolReturns(texts) ==
    /\ pc = "tool"
    /\ inflight # <<>>
    /\ last_result' = texts
    /\ messages' = messages \o ToolOutputTurns(function_calls[idx], texts)
    /\ IF idx < Len(function_calls)
       THEN /\ Dispatch(function_calls, idx + 1, Tail(inflight))
            /\ UNCHANGED <<iterations, model_calls, function_calls>>
       ELSE /\ LoopTop(iterations)
            /\ inflight' = Tail(inflight)
            /\ issued' = <<>>
            /\ UNCHANGED <<idx, dispatches, function_calls>>
    /\ UNCHANGED <<reset_messages, max_iterations, emitted, base, next_id,
                   queries, rounds, call_rounds, previous, fault>>

\* the failure logged and swallowed: the query ends as if it had returned
SwallowToolError ==
    /\ pc' = "idle"
    /\ outcome' = Returned(ReturnValue(messages))
    /\ UNCHANGED <<messages, iterations, function_calls, idx, issued,
                   model_calls, dispatches>>

\* the except clause around the dispatch loop: log and re-raise
\* the failure undoes what the query appended
RollBackToolError ==
    /\ pc' = "idle"
    /\ outcome' = Raised("call_tool")
    /\ messages' = IF reset_messages THEN <<>> ELSE base
    /\ UNCHANGED <<iterations, function_calls, idx, issued, model_calls,
                   dispatches>>

PropagateToolError ==
    /\ pc' = "idle"
    /\ outcome' = Raised("call_tool")
    /\ UNCHANGED <<messages, iterations, function_calls, idx, issued,
                   model_calls, dispatches>>

\* call_tool raises (the transport failed): process_query propagates it
CallToolRaises ==
    /\ pc = "tool"
    /\ inflight # <<>>
    /\ inflight' = Tail(inflight)
    /\ fault' = "call_tool"
    /\ PropagateToolError
    /\ UNCHANGED <<reset_messages, max_iterations, emitted, base, next_id,
                   queries, rounds, call_rounds, last_result, previous>>

(***************************************************************************)
(* Two callers of process_query on one client.  asyncio runs one of them   *)
(* at a time and switches at an await; self.messages, the session and the  *)
(* model are shared, the arguments and the locals are each caller's own.   *)
(* The awaits return here; none raises.                                    *)
(***************************************************************************)
Tasks == {1, 2}

\* the locals of a caller that is not inside process_query; input is the
\* conversation it sent with its last model call
IdleTask ==
    [pc |-> "idle", query |-> 0, reset_messages |-> FALSE, max_iterations |-> 0,
     iterations |-> 0, function_calls |-> <<>>, idx |-> 0, input |-> <<>>,
     outcome |-> NoOutcome]

TaskInit == tasks = [t \in Tasks |-> IdleTask]

\* the top of one pass of `while True` for the caller with the locals task,
\* up to the await of the model call on the conversation msgs
TaskLoopTop(task, msgs) ==
    IF iteration_limit_reached(task.iterations + 1, task.max_iterations)
    THEN [task EXCEPT !.iterations = task.iterations + 1, !.pc = "idle",
                      !.outcome = Raised("RuntimeError")]
    ELSE [task EXCEPT !.iterations = task.iterations + 1, !.pc = "model",
                      !.input = msgs]

\* the for loop of the caller reaches position k
TaskDispatch(task, k) ==
    IF json_loads_ok(task.function_calls[k].arguments)
    THEN [task EXCEPT !.pc = "tool", !.idx = k]
    ELSE [task EXCEPT !.pc = "idle", !.idx = k, !.outcome = Raised("json.loads")]

\* the call_tool requests the caller has sent when its locals are task
TaskRequests(task) ==
    IF task.pc = "tool" THEN ToolCallRequests(task.function_calls, task.idx)
    ELSE <<>>

\* the loop variables of the single caller, which these callers leave alone
singlevars ==
    <<pc, reset_messages, max_iterations, iterations, function_calls, idx,
      outcome, issued, model_calls, dispatches, emitted, base, call_rounds,
      last_result, previous, fault>>

\* caller t invokes process_query; it suspends on get_mcp_tools
TaskProcessQuery(t, reset, ceiling) ==
    /\ tasks[t].pc = "idle"
    /\ queries < MaxQueries
    /\ rounds + ceiling <= MaxRounds
    /\ queries' = queries + 1
    /\ rounds' = rounds + ceiling
    /\ tasks' = [tasks EXCEPT ![t] =
                     [IdleTask EXCEPT !.pc = "tools", !.query = queries + 1,
                                      !.reset_messages = reset,
                                      !.max_iterations = ceiling,
                                      !.outcome = Running]]
    /\ UNCHANGED <<messages, inflight, next_id, singlevars>>

\* get_mcp_tools returns to caller t: reset, user turn, first pass up to the
\* model call
TaskGetMcpToolsReturns(t) ==
    /\ tasks[t].pc = "tools"
    /\ messages' = InitialMessages(messages, tasks[t].reset_messages,
                                   QueryText(tasks[t].query))
    /\ tasks' = [tasks EXCEPT ![t] = TaskLoopTop(tasks[t], messages')]
    /\ UNCHANGED <<inflight, next_id, queries, rounds, singlevars>>

\* the model answers caller t: its items are appended, then return or first
\* dispatch
TaskModelReturns(t, output) ==
    /\ tasks[t].pc = "model"
    /\ messages' = messages \o ResponseTurns(output)
    /\ next_id' = next_id + Len(SelectSeq(output, IsFunctionCallItem))
    /\ \E task \in {[tasks[t] EXCEPT !.function_calls = QueuedCalls(output)]} :
           \E after \in {IF Len(task.function_calls) = 0
                         THEN [task EXCEPT !.pc = "idle",
                                   !.outcome = Returned(ReturnValue(messages'))]
                         ELSE TaskDispatch(task, 1)} :
               /\ tasks' = [tasks EXCEPT ![t] = after]
               /\ inflight' = inflight \o TaskRequests(after)
    /\ UNCHANGED <<queries, rounds, singlevars>>

\* call_tool answers caller t: its output turn(s) are appended, then the
\* next dispatch or the next pass of the loop
TaskCallToolReturns(t, texts) ==
    /\ tasks[t].pc = "tool"
    /\ \E k \in 1..Len(inflight) :
           inflight[k] = tasks[t].function_calls[tasks[t].idx].call_id
    /\ messages' = messages \o
           ToolOutputTurns(tasks[t].function_calls[tasks[t].idx], texts)
    /\ \E after \in {IF tasks[t].idx < Len(tasks[t].function_calls)
                     THEN TaskDispatch(tasks[t], tasks[t].idx + 1)
                     ELSE TaskLoopTop(tasks[t], messages')} :
           /\ tasks' = [tasks EXCEPT ![t] = after]
           /\ inflight' =
                  SelectSeq(inflight,
                            LAMBDA id : id # tasks[t].function_calls[tasks[t].idx].call_id)
                      \o TaskRequests(after)
    /\ UNCHANGED <<next_id, queries, rounds, singlevars>>

Ceilings == 0..MaxRounds
\* the number, in the session, of the model round being awaited
RoundNo == rounds - max_iterations + model_calls

(***************************************************************************)
(* SeleniumMCPServer: the browser session.  The handlers run one at a      *)
(* time; each action is one handler from call to return.                   *)
(***************************************************************************)
None == <<>>
Handle(n) == <<n>>
\* the session behind a handle
Session(handle) == {handle[k] : k \in 1..Len(handle)}

BROWSER_OPTIONS == {"chrome", "edge", "firefox", "ie", "safari"}
\* the names a caller passes to change_browser
BrowserNames == BROWSER_OPTIONS \cup {"opera"}
\* urls, as the pieces of their text: one without and one with the scheme
Urls == {<<"a.example">>, <<"http", "://", "b.example">>}
\* the url go_to navigates to: "http://" is put before a url that does not
\* start with "http"
NormalizedUrl(url) == IF url[1] = "http" THEN url ELSE <<"http", "://">> \o url
\* how the launch of a browser goes: the session is created and maximized,
\* the webdriver constructor raises, or maximize_window raises
Launches == {"ok", "constructor raises", "maximize_window raises"}
\* how driver.quit() goes: it closes the session, or it raises with the
\* session closed or still open
Quits == {"ok", "raises closed", "raises open"}

Value(v) == [returned |-> v]
Error(e) == [raised |-> e]
IsError(r) == "raised" \in DOMAIN r

\* start_browser with every session check left out
start_browser_always(drv, live, n, brw, launch) ==
    IF brw \in BROWSER_OPTIONS
    THEN IF launch = "constructor raises"
         THEN [driver |-> drv, sessions |-> live, created |-> n,
               result |-> Error("WebDriverException")]
         ELSE [driver |-> Handle(n + 1), sessions |-> live \cup {n + 1},
               created |-> n + 1,
               result |-> IF launch = "ok"
                          THEN Value(<<"Started", brw, "browser">>)
                          ELSE Error("WebDriverException")]
    ELSE [driver |-> drv, sessions |-> live, created |-> n,
          result |-> Value(<<"Unknown browser", brw>>)]

\* start_browser: the driver, the live sessions, the count of sessions and
\* the result it leaves
start_browser_effect(drv, live, n, brw, launch) ==
    IF drv = None
    THEN IF brw \in BROWSER_OPTIONS
         THEN IF launch = "constructor raises"
              THEN [driver |-> drv, sessions |-> live, created |-> n,
                    result |-> Error("WebDriverException")]
              ELSE [driver |-> Handle(n + 1), sessions |-> live \cup {n + 1},
                    created |-> n + 1,
                    result |-> IF launch = "ok"
                               THEN Value(<<"Started", brw, "browser">>)
                               ELSE Error("WebDriverException")]
         ELSE [driver |-> drv, sessions |-> live, created |-> n,
               result |-> Value(<<"Unknown browser", brw>>)]
    ELSE [driver |-> drv, sessions |-> live, created |-> n,
          result |-> Value(<<brw, "browser already running">>)]

\* quit_browser: the driver, the live sessions and the result it leaves
quit_browser_effect(drv, live, brw, quit) ==
    IF drv # None
    THEN IF quit = "ok"
         THEN [driver |-> None, sessions |-> live \ Session(drv),
               result |-> Value(<<brw, "browser closed successfully">>)]
         ELSE [driver |-> drv,
               sessions |-> IF quit = "raises closed"
                            THEN live \ Session(drv) ELSE live,
               result |-> Error("WebDriverException")]
    ELSE [driver |-> drv, sessions |-> live,
          result |-> Value(<<"No browser running">>)]

\* _ensure_browser_started
ensure_browser_started(drv, live, n, brw, launch) ==
    IF drv = None
    THEN start_browser_effect(drv, live, n, brw, launch)
    ELSE [driver |-> drv, sessions |-> live, created |-> n,
          result |-> Value(<<>>)]

(***************************************************************************)
(* The tool tiers.                                                         *)
(***************************************************************************)
\* the tools _register_tools registers with advanced_tools false, in order
BasicTier ==
    << "go_to", "back", "get_current_url", "click", "type_text",
       "get_page_summary", "take_screenshot_as_base64", "enable_advanced_tools" >>
\* the tools _register_tools registers with advanced_tools true, in order
AdvancedTier ==
    << "forward", "refresh", "get_title",
       "start_browser", "quit_browser", "set_timeout", "change_browser",
       "clear_text",
       "get_html", "get_element_text", "get_element_attribute",
       "get_element_xpath", "get_element_html", "get_visible_text",
       "get_visible_text_xpath",
       "find_elements", "count_elements", "element_exists",
       "take_screenshot",
       "execute_script",
       "get_cookies", "set_cookie", "delete_cookies",
       "submit_form", "wait_for_element", "wait_for_text",
       "get_last_action", "get_recording", "record_last_action",
       "save_recording", "load_recording", "reset_recording", "play_recording" >>

\* a registration of the advanced tier that registers the basic tier again
register_tools_both(registered, enabled, advanced_tools) ==
    [tools |-> registered \o (IF advanced_tools
                              THEN BasicTier \o AdvancedTier ELSE BasicTier),
     advanced_tools_enabled |-> advanced_tools \/ enabled]

\* _register_tools: the registered tools and the flag it leaves
register_tools(registered, enabled, advanced_tools) ==
    [tools |-> registered \o (IF advanced_tools THEN AdvancedTier ELSE BasicTier),
     advanced_tools_enabled |-> advanced_tools \/ enabled]

\* enable_advanced_tools that registers whatever the flag says
enable_advanced_tools_again(registered, enabled) ==
    [tier |-> register_tools(registered, enabled, TRUE),
     result |-> Value(<<"Advanced tools enabled">>)]

\* enable_advanced_tools: the tier and the result it leaves
enable_advanced_tools_effect(registered, enabled) ==
    IF enabled
    THEN [tier |-> [tools |-> registered, advanced_tools_enabled |-> enabled],
          result |-> Value(<<"Advanced tools already enabled">>)]
    ELSE [tier |-> register_tools(registered, enabled, TRUE),
          result |-> Value(<<"Advanced tools enabled">>)]

\* the transports a caller passes to run
Transports == {"stdio", "sse", "http"}

\* the timeout set by __init__, and the one a caller sets
DefaultTimeout == 10
Timeouts == {5}

ServerInit ==
    /\ browser = "chrome"
    /\ driver = None
    /\ sessions = {}
    /\ created = 0
    /\ last_action = None
    /\ op = <<"__init__">>
    /\ result = Value(<<>>)
    /\ timeout = DefaultTimeout
    /\ waited = None
    /\ advanced_tools_enabled = register_tools(<<>>, FALSE, FALSE).advanced_tools_enabled
    /\ tools = register_tools(<<>>, FALSE, FALSE).tools

\* run, called once on the constructed server, before it serves any tool
run(transport, advanced_tools) ==
    /\ op = <<"__init__">>
    /\ op' = <<"run", [transport |-> transport, advanced_tools |-> advanced_tools]>>
    /\ LET t == IF advanced_tools
                THEN register_tools(tools, advanced_tools_enabled, TRUE)
                ELSE [tools |-> tools,
                      advanced_tools_enabled |-> advanced_tools_enabled]
       IN  /\ tools' = t.tools
           /\ advanced_tools_enabled' = t.advanced_tools_enabled
    /\ result' = IF transport \in {"stdio", "sse"}
                 THEN Value(<<>>) ELSE Error("ValueError")
    /\ UNCHANGED <<browser, driver, sessions, created, last_action, timeout, waited>>

enable_advanced_tools ==
    /\ op' = <<"enable_advanced_tools">>
    /\ LET e == enable_advanced_tools_effect(tools, advanced_tools_enabled)
       IN  /\ tools' = e.tier.tools
           /\ advanced_tools_enabled' = e.tier.advanced_tools_enabled
           /\ result' = e.result
    /\ UNCHANGED <<browser, driver, sessions, created, last_action, timeout, waited>>

start_browser(launch) ==
    /\ driver = None => created < MaxSessions
    /\ LET e == start_browser_effect(driver, sessions, created, browser, launch)
       IN  /\ driver' = e.driver
           /\ sessions' = e.sessions
           /\ created' = e.created
           /\ result' = e.result
    /\ op' = <<"start_browser">>
    /\ UNCHANGED <<browser, last_action, timeout, waited>>

quit_browser(quit) ==
    /\ LET e == quit_browser_effect(driver, sessions, browser, quit)
       IN  /\ driver' = e.driver
           /\ sessions' = e.sessions
           /\ result' = e.result
    /\ op' = <<"quit_browser">>
    /\ UNCHANGED <<browser, created, last_action, timeout, waited>>

\* change_browser that closes the session before it looks at the name
change_browser_quit_first(name, quit) ==
    /\ op' = <<"change_browser", name>>
    /\ LET e == quit_browser_effect(driver, sessions, browser, quit)
       IN  /\ driver' = e.driver
           /\ sessions' = e.sessions
           /\ IF IsError(e.result)
              THEN /\ result' = e.result
                   /\ browser' = browser
              ELSE IF name \notin BROWSER_OPTIONS
              THEN /\ result' = Value(<<"Invalid browser", name>>)
                   /\ browser' = browser
              ELSE /\ result' = Value(<<"Browser set to", name>>)
                   /\ browser' = name
    /\ UNCHANGED <<created, last_action, timeout, waited>>

\* change_browser that changes the type with the session still running
change_browser_no_quit(name, quit) ==
    /\ op' = <<"change_browser", name>>
    /\ IF name \notin BROWSER_OPTIONS
       THEN /\ result' = Value(<<"Invalid browser", name>>)
            /\ UNCHANGED <<browser, driver, sessions>>
       ELSE /\ browser' = name
            /\ result' = Value(<<"Browser set to", name>>)
            /\ UNCHANGED <<driver, sessions>>
    /\ UNCHANGED <<created, last_action, timeout, waited>>

change_browser(name, quit) ==
    /\ op' = <<"change_browser", name>>
    /\ IF name \notin BROWSER_OPTIONS
       THEN /\ result' = Value(<<"Invalid browser", name>>)
            /\ UNCHANGED <<browser, driver, sessions>>
       ELSE LET e == quit_browser_effect(driver, sessions, browser, quit)
            IN  /\ driver' = e.driver
                /\ sessions' = e.sessions
                /\ IF IsError(e.result)
                   THEN /\ result' = e.result
                        /\ browser' = browser
                   ELSE /\ result' = Value(<<"Browser set to", name>>)
                        /\ browser' = name
    /\ UNCHANGED <<created, last_action, timeout, waited>>

(***************************************************************************)
(* The handlers that use the browser.  invoke is one handler from call to  *)
(* return, found by its name as play_recording's getattr finds it.         *)
(***************************************************************************)
\* the empty dict of arguments
NoArgs == <<>>
\* the values of selenium's By, and the strategies a caller passes
BY_OPTIONS ==
    {"id", "xpath", "link text", "partial link text", "name", "tag name",
     "class name", "css selector"}
Bys == {"css selector", "bogus"}
\* how the use of the driver goes once there is a live session: it does
\* what it is asked, the element or the text looked for is not there, or the
\* driver raises
Outcomes == {"ok", "timeout", "raises"}
\* how a handler's calls outside the server go: the launch of the browser,
\* if the handler starts one, and then the use of the driver
Envs ==
    {<<"ok", how>> : how \in Outcomes}
        \cup {<<launch, "ok">> : launch \in Launches \ {"ok"}}
\* the same for a handler that waits for nothing
EnvsNoWait == {env \in Envs : env[2] # "timeout"}
\* the strategy a caller passes with how the calls outside the server go
LocatorEnvs ==
    {<<"css selector", env[1], env[2]>> : env \in Envs}
        \cup {<<"bogus", env[1], env[2]>> : env \in EnvsNoWait}

(***************************************************************************)
(* The page.  BeautifulSoup(html, "html.parser") is a tree; it is kept as  *)
(* the sequence of its nodes in document order, each with its name, the    *)
(* position of its parent (0: the "[document]" node, soup itself) and what *)
(* the live session answers when it is asked for the element.              *)
(***************************************************************************)
MaxNodes == 3

\* soup itself
Document == 0
\* a NavigableString
Text == "#text"
\* the elements that have children in the pages built here; the others hold
\* at most text
Containers == {"form", "div", "b"}
\* find_element(By.XPATH, xpath) followed by is_displayed(): True, False, or
\* NoSuchElementException
Shown == {"displayed", "hidden", "absent"}

Node(name, parent, shown) == [name |-> name, parent |-> parent, shown |-> shown]

\* the elements the pages that are summarized are made of
SummaryNodes ==
    {<<"form", "displayed">>, <<"button", "displayed">>, <<"button", "hidden">>,
     <<"a", "displayed">>, <<"p", "displayed">>, <<"input", "absent">>}
\* the nodes the pages whose HTML is extracted are made of
HtmlNodes == {<<"div", "displayed">>, <<"b", "displayed">>, <<Text, "displayed">>}

\* el.parent, el.parent.parent, ... up to soup
RECURSIVE parents(_, _)
parents(doc, i) ==
    IF i = Document THEN {} ELSE {doc[i].parent} \cup parents(doc, doc[i].parent)

\* tag.contents: the children of node i, in order
contents(doc, i) ==
    SelectSeq([j \in 1..Len(doc) |-> j], LAMBDA j : doc[j].parent = i)

PageInit == page_source = <<>>

\* the page of the running browser gets one more node, after the ones it has:
\* a child of the last node, a sibling of it, or a sibling of one of its
\* parents
page_changes(name, shown) ==
    /\ driver # None
    /\ Session(driver) \subseteq sessions
    /\ op[1] \notin {"get_page_summary", "get_element_html"}
    /\ Len(page_source) < MaxNodes
    /\ \E parent \in {Document} \cup
                     (IF page_source = <<>> THEN {}
                      ELSE {Len(page_source)}
                               \cup parents(page_source, Len(page_source))) :
           /\ parent # Document => page_source[parent].name \in Containers
           /\ page_source' = Append(page_source, Node(name, parent, shown))
    /\ UNCHANGED <<browser, driver, sessions, created, last_action, op, result,
                   timeout, waited>>

\* get_depth of get_page_summary
RECURSIVE get_depth(_, _)
get_depth(doc, i) ==
    IF i = Document THEN 0 ELSE get_depth(doc, doc[i].parent) + 1

\* the siblings before the element, whatever their name
find_previous_siblings_any_name(doc, i) ==
    {j \in 1..(i - 1) : doc[j].parent = doc[i].parent}

\* el.find_previous_siblings(el.name)
find_previous_siblings(doc, i) ==
    {j \in 1..(i - 1) : doc[j].parent = doc[i].parent /\ doc[j].name = doc[i].name}

\* a step of the path with a position for every element
path_step_always_indexed(doc, i) ==
    <<doc[i].name, Cardinality(find_previous_siblings(doc, i)) + 1>>

\* f"{el.name}{index}": the name alone, or the name and the position [n]
path_step(doc, i) ==
    LET sibs == find_previous_siblings(doc, i)
    IN  IF sibs # {} THEN <<doc[i].name, Cardinality(sibs) + 1>>
        ELSE <<doc[i].name>>

\* build_xpath of get_page_summary: the steps from soup down to the element
RECURSIVE build_xpath(_, _)
build_xpath(doc, i) ==
    IF i = Document THEN <<>>
    ELSE Append(build_xpath(doc, doc[i].parent), path_step(doc, i))

\* the elements a path selects in the tree, as XPath reads it: a step is a
\* child with the name of the step, any such child when the step has no
\* position, and with the position [n] the n-th child of that name
RECURSIVE select(_, _)
select(doc, xpath) ==
    IF xpath = <<>> THEN {Document}
    ELSE LET step == xpath[Len(xpath)]
             above == select(doc, SubSeq(xpath, 1, Len(xpath) - 1))
         IN  {i \in 1..Len(doc) :
                 /\ doc[i].parent \in above
                 /\ doc[i].name = step[1]
                 /\ Len(step) = 2 =>
                        Cardinality({j \in 1..i : /\ doc[j].parent = doc[i].parent
                                                  /\ doc[j].name = doc[i].name})
                            = step[2]}

\* find_element(By.XPATH, xpath) on the tree: the first element selected,
\* in document order (None: NoSuchElementException)
find_element(doc, xpath) ==
    IF select(doc, xpath) = {} THEN None
    ELSE <<CHOOSE i \in select(doc, xpath) :
               \A j \in select(doc, xpath) : i <= j>>

\* the probe that takes an element for visible when it is not found
is_element_visible_by_xpath_lenient(doc, xpath) ==
    \E i \in 1..Len(doc) :
        build_xpath(doc, i) = xpath /\ doc[i].shown \in {"displayed", "absent"}

\* is_element_visible_by_xpath of get_page_summary: what the live session
\* answers for the path; the answer is the same for the whole call (the
\* cache) and False when the element is not found
is_element_visible_by_xpath(doc, xpath) ==
    \E i \in 1..Len(doc) :
        build_xpath(doc, i) = xpath /\ doc[i].shown = "displayed"

summary_tags == {"form", "button", "a", "h1", "h2", "h3", "p", "span"}

\* data["type"]
type(name) ==
    IF name = "form" THEN "form"
    ELSE IF name = "button" THEN "button"
    ELSE IF name = "a" THEN "link" ELSE "text"

\* the entry of one element, or of an input or a button of a form: with
\* detailed set it has the xpath and, when the hidden elements are kept,
\* the answer of the probe
element_data(doc, i, only_visible_elements) ==
    IF only_visible_elements THEN [xpath |-> build_xpath(doc, i)]
    ELSE [xpath |-> build_xpath(doc, i),
          visible |-> is_element_visible_by_xpath(doc, build_xpath(doc, i))]

\* extract_inputs and extract_buttons of get_page_summary, for the elements
\* with one of the names inside the form, from node j of the page on: the
\* ones that are not visible are left out when only_visible_elements is set
RECURSIVE extract(_, _, _, _, _)
extract(doc, form, names, only_visible_elements, j) ==
    IF j > Len(doc) THEN <<>>
    ELSE (IF /\ form \in parents(doc, j)
             /\ doc[j].name \in names
             /\ only_visible_elements =>
                    is_element_visible_by_xpath(doc, build_xpath(doc, j))
          THEN <<element_data(doc, j, only_visible_elements)>>
          ELSE <<>>)
             \o extract(doc, form, names, only_visible_elements, j + 1)

\* data of summarize_forms_buttons_links_and_text for the element j; a form
\* without inputs or buttons has the empty list here where the code has no
\* key
summary_data(doc, j, only_visible_elements) ==
    [index |-> None,
     type |-> type(doc[j].name),
     depth |-> get_depth(doc, j),
     element |-> element_data(doc, j, only_visible_elements),
     inputs |-> IF doc[j].name = "form"
                THEN extract(doc, j, {"input", "textarea", "select"},
                             only_visible_elements, 1)
                ELSE <<>>,
     buttons |-> IF doc[j].name = "form"
                 THEN extract(doc, j, {"button"}, only_visible_elements, 1)
                 ELSE <<>>]

\* the loop of summarize_forms_buttons_links_and_text over
\* soup.find_all(summary_tags), from node j of the page on: the entries in
\* document order, before they are sorted
RECURSIVE collect(_, _, _, _)
collect(doc, filter_type, only_visible_elements, j) ==
    IF j > Len(doc) THEN <<>>
    ELSE (IF /\ doc[j].name \in summary_tags
             /\ filter_type = "" \/ filter_type = type(doc[j].name)
             /\ only_visible_elements =>
                    is_element_visible_by_xpath(doc, build_xpath(doc, j))
          THEN <<summary_data(doc, j, only_visible_elements)>>
          ELSE <<>>)
             \o collect(doc, filter_type, only_visible_elements, j + 1)

\* order of summarize_forms_buttons_links_and_text
order(t) ==
    IF t = "button" THEN 0 ELSE IF t = "link" THEN 1
    ELSE IF t = "form" THEN 2 ELSE 3

\* a summary left in document order
sorted_not(summary) == summary

\* sorted(summary, key=...): by order, the entries of one type in the order
\* they had (sorted is stable)
sorted(summary) ==
    LET of(n) == SelectSeq(summary, LAMBDA data : order(data.type) = n)
    IN  of(0) \o of(1) \o of(2) \o of(3)

\* positions that count from 0
with_index_from_zero(summary) ==
    [i \in 1..Len(summary) |->
        [summary[i] EXCEPT !.index = <<i - 1, Len(summary)>>]]

\* data["index"] = f"{i + 1}/{len(summary)}" for i, data in enumerate(summary)
with_index(summary) ==
    [i \in 1..Len(summary) |->
        [summary[i] EXCEPT !.index = <<i, Len(summary)>>]]

\* summarize_forms_buttons_links_and_text
summarize_forms_buttons_links_and_text(doc, filter_type, only_visible_elements) ==
    with_index(sorted(collect(doc, filter_type, only_visible_elements, 1)))

\* a slice that leaves out its first element
slice_late(seq, start, stop) ==
    LET n == Len(seq)
        lo == IF start < 0 THEN (IF start + n < 0 THEN 0 ELSE start + n)
              ELSE IF start > n THEN n ELSE start
        hi == IF stop < 0 THEN (IF stop + n < 0 THEN 0 ELSE stop + n)
              ELSE IF stop > n THEN n ELSE stop
    IN  SubSeq(seq, lo + 2, hi)

\* seq[start:stop] of Python: a negative bound counts from the end, and
\* both are cut to the length
slice(seq, start, stop) ==
    LET n == Len(seq)
        lo == IF start < 0 THEN (IF start + n < 0 THEN 0 ELSE start + n)
              ELSE IF start > n THEN n ELSE start
        hi == IF stop < 0 THEN (IF stop + n < 0 THEN 0 ELSE stop + n)
              ELSE IF stop > n THEN n ELSE stop
    IN  SubSeq(seq, lo + 1, hi)

\* what get_page_summary returns for the page doc
page_summary(doc, args) ==
    slice(summarize_forms_buttons_links_and_text(
              doc, args.filter_type, args.only_visible_elements),
          args.skip_elements, args.skip_elements + args.max_elements)

\* the arguments of get_page_summary when the caller passes none, but for
\* detailed, which is set
SummaryDefaults ==
    [skip_elements |-> 0, max_elements |-> 20, filter_type |-> "",
     only_visible_elements |-> TRUE, detailed |-> TRUE]

\* the arguments get_page_summary is called with
SummaryArgs ==
    {[SummaryDefaults EXCEPT !.skip_elements = page[1], !.max_elements = page[2]] :
         page \in {<<0, 1>>, <<1, 2>>, <<0, 2>>, <<2, 2>>, <<-1, 2>>}}
    \cup {[SummaryDefaults EXCEPT !.filter_type = "text"],
          [SummaryDefaults EXCEPT !.only_visible_elements = FALSE]}

\* the copy of a tree that has every node of it
Whole(doc) == 1..Len(doc)

\* trim_html_tag_to_depth: the nodes of doc that the trimmed copy of node i
\* has.  The loop over tag.children reads the list tag.contents by position
\* k while new_tag.append(trimmed_child) takes a NavigableString, which is
\* returned as it is and not copied, out of that list.
RECURSIVE trim_html_tag_to_depth(_, _, _)
RECURSIVE trim_children(_, _, _, _)
trim_html_tag_to_depth(doc, i, depth) ==
    IF depth <= 0 THEN {}
    ELSE IF doc[i].name = Text THEN {i}
    ELSE {i} \cup (IF depth > 1
                   THEN trim_children(doc, contents(doc, i), 1, depth - 1)
                   ELSE {})
trim_children(doc, children, k, depth) ==
    IF k > Len(children) THEN {}
    ELSE LET child == children[k]
             trimmed_child == trim_html_tag_to_depth(doc, child, depth)
         IN  trimmed_child \cup
                 trim_children(doc,
                               IF doc[child].name = Text
                               THEN SubSeq(children, 1, k - 1)
                                        \o SubSeq(children, k + 1, Len(children))
                               ELSE children,
                               k + 1, depth)

\* extract_html_to_depth; depth is None or <<d>>.  The result is the text of
\* the nodes kept, or the method soup.prettify itself (it is not called)
extract_html_to_depth(doc, depth, prettify) ==
    IF depth = None
    THEN IF prettify THEN <<"method", "prettify">> ELSE <<"html", Whole(doc)>>
    ELSE <<"html",
           UNION {trim_html_tag_to_depth(doc, i, depth[1]) :
                      i \in {j \in 1..Len(doc) : doc[j].parent = Document}}>>

\* the handlers that call _remember_action
Remembering ==
    {"set_timeout", "go_to", "back", "forward", "click", "type_text",
     "clear_text", "execute_script", "take_screenshot",
     "take_screenshot_as_base64", "set_cookie", "delete_cookies",
     "submit_form", "wait_for_element", "wait_for_text"}
\* the handlers that call _ensure_browser_started
Ensuring ==
    {"go_to", "get_current_url", "get_title", "refresh", "back", "forward",
     "click", "type_text", "clear_text", "get_element_text",
     "get_element_attribute", "find_elements", "count_elements",
     "element_exists", "execute_script", "take_screenshot",
     "take_screenshot_as_base64", "get_cookies", "set_cookie",
     "delete_cookies", "submit_form", "wait_for_element", "wait_for_text"}
\* the handlers that return when by is not in BY_OPTIONS
Validating ==
    {"click", "type_text", "clear_text", "get_element_text",
     "get_element_attribute", "find_elements", "count_elements",
     "element_exists"}
\* the handlers that pass by to the driver
Locating ==
    Validating \cup {"get_element_xpath", "submit_form", "wait_for_element"}
\* the handlers that use the driver inside try ... except Exception and
\* return a text that holds the exception
Catching ==
    {"click", "type_text", "clear_text", "get_element_text",
     "get_element_attribute", "get_element_xpath", "execute_script",
     "take_screenshot", "take_screenshot_as_base64", "set_cookie",
     "submit_form"}
\* the handlers that wait for an element or a text with WebDriverWait
Waiting ==
    {"click", "type_text", "clear_text", "get_element_text",
     "get_element_attribute", "get_element_xpath", "find_elements",
     "submit_form", "wait_for_element", "wait_for_text"}

\* _remember_action: the name of the calling handler and its named
\* arguments without self (the variadic arguments are not among them)
remember_action(name, args) ==
    << name,
       IF name = "execute_script" THEN [script |-> args.script]
       ELSE IF name = "set_cookie" THEN [name |-> args.name, value |-> args.value]
       ELSE args >>

\* what a handler returns when the driver raised nothing
Done(name, args, how) ==
    IF name = "go_to" THEN <<"Navigated to", NormalizedUrl(args.url)>>
    ELSE IF name \in {"element_exists", "wait_for_element", "wait_for_text"}
    THEN <<"bool", TRUE>>
    ELSE IF name = "count_elements"
    THEN <<"int", IF how = "timeout" THEN 0 ELSE 1>>
    ELSE IF name = "find_elements" THEN <<"list", <<[index |-> 0]>>>>
    ELSE IF name = "get_page_summary"
    THEN <<"summary", page_summary(page_source, args)>>
    ELSE <<name, "done">>

\* what a handler returns when by is not in BY_OPTIONS
invalid_by(name, by) ==
    IF name = "find_elements" THEN <<"list", <<[error |-> "Invalid by"]>>>>
    ELSE IF name = "count_elements" THEN <<"int", -1>>
    ELSE IF name = "element_exists" THEN <<"bool", FALSE>>
    ELSE <<"Invalid by", by>>

\* the exception that the use of self.driver by a handler raises
driver_failure(drv, live, name, args, how) ==
    IF drv = None THEN "AttributeError"
    ELSE IF ~(Session(drv) \subseteq live) THEN "WebDriverException"
    ELSE IF name \in Locating /\ args.by \notin BY_OPTIONS
    THEN "InvalidArgumentException"
    ELSE IF how = "raises" THEN "WebDriverException"
    ELSE IF how = "timeout" /\ name \in Waiting THEN "TimeoutException"
    ELSE IF how = "timeout" /\ name = "element_exists"
    THEN "NoSuchElementException"
    ELSE "none"

\* what a handler makes of the use of self.driver: the value it returns or
\* the exception it lets through
handler_result(name, args, how, failure) ==
    IF failure = "none" THEN Value(Done(name, args, how))
    ELSE IF name \in Catching
    THEN IF failure = "TimeoutException"
         THEN Value(<<"Timeout waiting">>)
         ELSE Value(<<"Error", failure>>)
    ELSE IF name = "find_elements"
    THEN IF failure = "TimeoutException"
         THEN Value(<<"list", <<>>>>)
         ELSE Value(<<"list", <<[error |-> failure]>>>>)
    ELSE IF name = "count_elements" THEN Value(<<"int", 0>>)
    ELSE IF name = "element_exists" /\ failure = "NoSuchElementException"
    THEN Value(<<"bool", FALSE>>)
    ELSE IF name \in {"wait_for_element", "wait_for_text"}
            /\ failure = "TimeoutException"
    THEN Value(<<"bool", FALSE>>)
    ELSE Error(failure)

\* the handlers that take the timeout of their wait as an argument
TimedWaits == {"wait_for_element", "wait_for_text"}

\* the argument used whatever it is
timeout_or_given(given, configured) == given

\* timeout = timeout or self.timeout: 0 is the only int that is false
timeout_or(given, configured) == IF given # 0 THEN given ELSE configured

\* the timeout a handler builds its WebDriverWait with
wait_timeout(name, args, configured) ==
    IF name \in TimedWaits THEN timeout_or(args.timeout, configured)
    ELSE configured

\* the handler gets as far as WebDriverWait(self.driver, ...): it waits for
\* something, _ensure_browser_started raised nothing (ensured is what it
\* left) and the handler did not return at its check of by
builds_wait(name, args, ensured) ==
    /\ name \in Waiting
    /\ ~IsError(ensured)
    /\ ~(name \in Validating /\ args.by \notin BY_OPTIONS)

\* a handler that looks at by before it does anything else
invoke_checked_first(st, brw, name, args, launch, how) ==
    IF name \in Validating /\ args.by \notin BY_OPTIONS
    THEN [st EXCEPT !.result = Value(invalid_by(name, args.by))]
    ELSE
    LET la == IF name \in Remembering
              THEN remember_action(name, args) ELSE st.last_action
    IN  IF name = "set_timeout"
        THEN [st EXCEPT !.last_action = la,
                        !.timeout = args.seconds,
                        !.result = Value(<<"Default timeout set to", args.seconds>>)]
        ELSE LET e == IF name \in Ensuring
                      THEN ensure_browser_started(st.driver, st.sessions,
                                                  st.created, brw, launch)
                      ELSE [driver |-> st.driver, sessions |-> st.sessions,
                            created |-> st.created, result |-> Value(<<>>)]
             IN  [driver |-> e.driver, sessions |-> e.sessions,
                  created |-> e.created, last_action |-> la,
                  timeout |-> st.timeout,
                  waited |->
                      IF builds_wait(name, args, e.result)
                      THEN <<wait_timeout(name, args, st.timeout)>>
                      ELSE None,
                  result |->
                      IF IsError(e.result) THEN e.result
                      ELSE handler_result(name, args, how,
                               driver_failure(e.driver, e.sessions, name,
                                              args, how))]

\* one handler, from call to return, on the state st of the server
invoke(st, brw, name, args, launch, how) ==
    LET la == IF name \in Remembering
              THEN remember_action(name, args) ELSE st.last_action
    IN  IF name = "set_timeout"
        THEN [st EXCEPT !.last_action = la,
                        !.timeout = args.seconds,
                        !.result = Value(<<"Default timeout set to", args.seconds>>)]
        ELSE LET e == IF name \in Ensuring
                      THEN ensure_browser_started(st.driver, st.sessions,
                                                  st.created, brw, launch)
                      ELSE [driver |-> st.driver, sessions |-> st.sessions,
                            created |-> st.created, result |-> Value(<<>>)]
             IN  [driver |-> e.driver, sessions |-> e.sessions,
                  created |-> e.created, last_action |-> la,
                  timeout |-> st.timeout,
                  waited |->
                      IF builds_wait(name, args, e.result)
                      THEN <<wait_timeout(name, args, st.timeout)>>
                      ELSE None,
                  result |->
                      IF IsError(e.result) THEN e.result
                      ELSE IF name \in Validating /\ args.by \notin BY_OPTIONS
                      THEN Value(invalid_by(name, args.by))
                      ELSE handler_result(name, args, how,
                               driver_failure(e.driver, e.sessions, name,
                                              args, how))]

\* the state of the server that invoke works on
ServerState ==
    [driver |-> driver, sessions |-> sessions, created |-> created,
     last_action |-> last_action, timeout |-> timeout, waited |-> waited,
     result |-> result]

\* a call of the handler name with the arguments args
call(name, args, launch, how) ==
    /\ (driver = None /\ name \in Ensuring) => created < MaxSessions
    /\ op' = <<name, args>>
    /\ \E st \in {invoke(ServerState, browser, name, args, launch, how)} :
           /\ driver' = st.driver
           /\ sessions' = st.sessions
           /\ created' = st.created
           /\ last_action' = st.last_action
           /\ timeout' = st.timeout
           /\ waited' = st.waited
           /\ result' = st.result
    /\ UNCHANGED browser

\* the depths get_element_html is called with
Depths == -1..MaxNodes

\* get_element_html of the whole page: the outerHTML that
\* get_element_attribute returns (the text of its failure, when it fails),
\* cut by extract_html_to_depth; a negative depth is None
get_element_html(depth, prettify) ==
    LET args == [locator |-> "html", depth |-> depth, by |-> "css selector",
                 outer |-> TRUE, prettify |-> prettify]
        attr == [locator |-> "html", attribute |-> "outerHTML",
                 by |-> "css selector"]
        st == invoke(ServerState, browser, "get_element_attribute", attr,
                     "ok", "ok")
        html == IF st.result = Value(Done("get_element_attribute", attr, "ok"))
                THEN page_source
                ELSE <<Node(Text, Document, "displayed")>>
    IN  /\ driver = None => created < MaxSessions
        /\ op' = <<"get_element_html", args>>
        /\ driver' = st.driver
        /\ sessions' = st.sessions
        /\ created' = st.created
        /\ last_action' = st.last_action
        /\ timeout' = st.timeout
        /\ waited' = st.waited
        /\ result' = IF IsError(st.result) THEN st.result
                     ELSE Value(extract_html_to_depth(
                                    html, IF depth >= 0 THEN <<depth>> ELSE None,
                                    prettify))
        /\ UNCHANGED browser

\* go_to: remember the call, start the browser if there is none, navigate
go_to(url, launch) == call("go_to", [url |-> url], launch, "ok")

get_current_url(launch, how) == call("get_current_url", NoArgs, launch, how)
refresh(launch, how) == call("refresh", NoArgs, launch, how)
back(launch, how) == call("back", NoArgs, launch, how)
forward(launch, how) == call("forward", NoArgs, launch, how)
delete_cookies(launch, how) == call("delete_cookies", NoArgs, launch, how)
set_timeout(seconds) == call("set_timeout", [seconds |-> seconds], "ok", "ok")
\* the arguments of a call of a handler that takes a locator strategy
LocatorArgs(name, by) ==
    IF name = "type_text"
    THEN [locator |-> "#q", text |-> "hello", clear |-> TRUE,
          press_enter |-> FALSE, is_password |-> FALSE, by |-> by]
    ELSE IF name = "submit_form" THEN [form_locator |-> "form", by |-> by]
    ELSE IF name = "get_element_attribute"
    THEN [locator |-> "#q", attribute |-> "value", by |-> by]
    ELSE IF name = "get_element_xpath"
    THEN [locator |-> "#q", by |-> by, prettify |-> FALSE]
    ELSE IF name = "find_elements"
    THEN [locator |-> "#q", by |-> by, max_elements |-> 10, skip_elements |-> 0]
    ELSE IF name = "wait_for_element"
    THEN [locator |-> "#q", by |-> by, timeout |-> -1]
    ELSE [locator |-> "#q", by |-> by]

click(by, launch, how) == call("click", LocatorArgs("click", by), launch, how)
clear_text(by, launch, how) ==
    call("clear_text", LocatorArgs("clear_text", by), launch, how)
type_text(by, launch, how) ==
    call("type_text", LocatorArgs("type_text", by), launch, how)
submit_form(by, launch, how) ==
    call("submit_form", LocatorArgs("submit_form", by), launch, how)
\* the arguments after the script, as a caller passes them
ScriptArgs == {<<>>, <<1>>}
execute_script(extra, launch, how) ==
    call("execute_script",
         IF extra = <<>> THEN [script |-> "return 1"]
         ELSE [script |-> "return 1", args |-> extra],
         launch, how)
\* the keyword arguments after name and value, as a caller passes them
CookieKwargs == {<<>>, <<"path", "/">>}
set_cookie(kwargs, launch, how) ==
    call("set_cookie",
         IF kwargs = <<>> THEN [name |-> "sid", value |-> "1"]
         ELSE [name |-> "sid", value |-> "1", kwargs |-> kwargs],
         launch, how)
get_element_xpath(by, how) ==
    call("get_element_xpath", LocatorArgs("get_element_xpath", by), "ok", how)
get_page_summary(args, how) == call("get_page_summary", args, "ok", how)
get_title(launch, how) == call("get_title", NoArgs, launch, how)
get_cookies(launch, how) == call("get_cookies", NoArgs, launch, how)
get_element_text(by, launch, how) ==
    call("get_element_text", LocatorArgs("get_element_text", by), launch, how)
get_element_attribute(by, launch, how) ==
    call("get_element_attribute", LocatorArgs("get_element_attribute", by),
         launch, how)
find_elements(by, launch, how) ==
    call("find_elements", LocatorArgs("find_elements", by), launch, how)
count_elements(by, launch, how) ==
    call("count_elements", LocatorArgs("count_elements", by), launch, how)
element_exists(by, launch, how) ==
    call("element_exists", LocatorArgs("element_exists", by), launch, how)
\* the timeouts a caller passes to a wait: the default argument, zero, some
\* seconds
WaitTimeouts == {-1, 0, 3}
wait_for_element(by, seconds, launch, how) ==
    call("wait_for_element",
         [LocatorArgs("wait_for_element", by) EXCEPT !.timeout = seconds],
         launch, how)
wait_for_text(seconds, launch, how) ==
    call("wait_for_text", [text |-> "hello", timeout |-> seconds], launch, how)

(***************************************************************************)
(* The recorder.  self.last_action is a tuple (name, arguments); an entry  *)
(* of self.sequence_recorded is that tuple, or, after load_recording, the  *)
(* list [name, arguments] that json.load made of it.                       *)
(***************************************************************************)
Tuple(t) == [tuple |-> t]
\* the name and the arguments of an entry, as "for action_name, arguments
\* in self.sequence_recorded" unpacks it
Unpack(entry) == IF "tuple" \in DOMAIN entry THEN entry.tuple ELSE entry.list
Pairs(seq) == [k \in 1..Len(seq) |-> Unpack(seq[k])]

\* json.dump that writes the entries last to first
json_dump_reversed(seq) ==
    [k \in 1..Len(seq) |->
        [array |-> << [string |-> Unpack(seq[Len(seq) + 1 - k])[1]],
                      [object |-> Unpack(seq[Len(seq) + 1 - k])[2]] >>]]

\* json.dump: a tuple and a list are both written as an array, a str as a
\* string and a dict of arguments (str keys, JSON values) as an object
json_dump(seq) ==
    [k \in 1..Len(seq) |->
        [array |-> << [string |-> Unpack(seq[k])[1]],
                      [object |-> Unpack(seq[k])[2]] >>]]

\* json.load: an array is read as a list
json_load(text) ==
    [k \in 1..Len(text) |->
        List(<<text[k].array[1].string, text[k].array[2].object>>)]

\* a file of the recordings directory
Missing == [state |-> "missing", text |-> <<>>]
Truncated == [state |-> "truncated", text |-> <<>>]
Written(text) == [state |-> "written", text |-> text]

\* the seconds of the wall clock at which save_recording is called, which
\* name the files, and the names a caller passes to load_recording
Seconds == {0}
FileNames == Seconds \cup {1}
\* how the writing of the file goes: it is written, makedirs or open raises
\* and leaves the directory as it is, or json.dump raises on the opened file
Savings == {"ok", "open raises", "dump raises"}
\* how the reading of the file goes as far as load_recording's own calls
\* decide it: makedirs, called before the try block, raises or not
Loadings == {"ok", "makedirs raises"}

RecorderInit ==
    /\ sequence_recorded = <<>>
    /\ files = [name \in FileNames |-> Missing]
    /\ saved = [name \in FileNames |-> <<>>]
    /\ invoked = <<>>
    /\ failed = 0

\* record_last_action that puts the action first
record_last_action_first(la, seq) ==
    IF la = None
    THEN [sequence_recorded |-> seq,
          result |-> Value(<<"Last action does not exist">>)]
    ELSE [sequence_recorded |-> <<Tuple(la)>> \o seq,
          result |-> Value(<<"Action recorded", la>>)]

\* record_last_action: the sequence and the result it leaves
record_last_action_effect(la, seq) ==
    IF la = None
    THEN [sequence_recorded |-> seq,
          result |-> Value(<<"Last action does not exist">>)]
    ELSE [sequence_recorded |-> Append(seq, Tuple(la)),
          result |-> Value(<<"Action recorded", la>>)]

record_last_action ==
    /\ Len(sequence_recorded) < MaxRecorded
    /\ op' = <<"record_last_action">>
    /\ LET e == record_last_action_effect(last_action, sequence_recorded)
       IN  /\ sequence_recorded' = e.sequence_recorded
           /\ result' = e.result
    /\ invoked' = <<>>
    /\ failed' = 0
    /\ UNCHANGED <<browser, driver, sessions, created, last_action, timeout, waited,
                   files, saved>>

\* reset_recording that keeps the last action
reset_recording_sequence_only(la, seq) ==
    [last_action |-> la, sequence_recorded |-> <<>>]

\* reset_recording: the last action and the sequence it leaves
reset_recording_effect(la, seq) ==
    [last_action |-> None, sequence_recorded |-> <<>>]

reset_recording ==
    /\ op' = <<"reset_recording">>
    /\ LET e == reset_recording_effect(last_action, sequence_recorded)
       IN  /\ last_action' = e.last_action
           /\ sequence_recorded' = e.sequence_recorded
    /\ result' = Value(<<"Recording has been reset">>)
    /\ invoked' = <<>>
    /\ failed' = 0
    /\ UNCHANGED <<browser, driver, sessions, created, timeout, waited, files, saved>>

\* save_recording: the file is named after now, the second of the call
save_recording(reset, saving, now) ==
    /\ op' = <<"save_recording", [reset_recording |-> reset]>>
    /\ invoked' = <<>>
    /\ failed' = 0
    /\ IF saving = "ok"
       THEN /\ files' = [files EXCEPT ![now] = Written(json_dump(sequence_recorded))]
            /\ saved' = [saved EXCEPT ![now] = Pairs(sequence_recorded)]
            /\ LET e == IF reset
                        THEN reset_recording_effect(last_action, sequence_recorded)
                        ELSE [last_action |-> last_action,
                              sequence_recorded |-> sequence_recorded]
               IN  /\ last_action' = e.last_action
                   /\ sequence_recorded' = e.sequence_recorded
            /\ result' = Value(<<"Recording saved", Len(sequence_recorded), now>>)
       ELSE /\ files' = IF saving = "dump raises"
                        THEN [files EXCEPT ![now] = Truncated]
                        ELSE files
            /\ saved' = IF saving = "dump raises"
                        THEN [saved EXCEPT ![now] = <<>>]
                        ELSE saved
            /\ result' = Value(<<"Error saving recording">>)
            /\ UNCHANGED <<last_action, sequence_recorded>>
    /\ UNCHANGED <<browser, driver, sessions, created, timeout, waited>>

\* load_recording that adds the file to the sequence
load_recording_merge(seq, file, loading) ==
    IF loading = "makedirs raises"
    THEN [sequence_recorded |-> seq, result |-> Error("OSError")]
    ELSE IF file.state = "missing"
    THEN [sequence_recorded |-> seq,
          result |-> Value(<<"Error loading recording", "FileNotFoundError">>)]
    ELSE IF file.state = "truncated"
    THEN [sequence_recorded |-> seq,
          result |-> Value(<<"Error loading recording", "JSONDecodeError">>)]
    ELSE [sequence_recorded |-> seq \o json_load(file.text),
          result |-> Value(<<"Recording loaded", Len(json_load(file.text))>>)]

\* load_recording: the sequence and the result it leaves
load_recording_effect(seq, file, loading) ==
    IF loading = "makedirs raises"
    THEN [sequence_recorded |-> seq, result |-> Error("OSError")]
    ELSE IF file.state = "missing"
    THEN [sequence_recorded |-> seq,
          result |-> Value(<<"Error loading recording", "FileNotFoundError">>)]
    ELSE IF file.state = "truncated"
    THEN [sequence_recorded |-> seq,
          result |-> Value(<<"Error loading recording", "JSONDecodeError">>)]
    ELSE [sequence_recorded |-> json_load(file.text),
          result |-> Value(<<"Recording loaded", Len(json_load(file.text))>>)]

load_recording(filename, loading) ==
    /\ op' = <<"load_recording", [filename |-> filename]>>
    /\ invoked' = <<>>
    /\ failed' = 0
    /\ LET e == load_recording_effect(sequence_recorded, files[filename], loading)
       IN  /\ sequence_recorded' = e.sequence_recorded
           /\ result' = e.result
    /\ UNCHANGED <<browser, driver, sessions, created, last_action, timeout, waited,
                   files, saved>>

\* a handler failed: it raised, or it returned the text of a failure
IsFailure(r) ==
    \/ IsError(r)
    \/ /\ Len(r.returned) > 0
       /\ r.returned[1] \in {"Timeout waiting", "Error", "Invalid by"}

RECURSIVE play_from_second(_, _, _, _, _, _, _, _, _)
\* a replay that leaves out the first entry
play_from_second(seq, k, st, brw, launch, fails, how, calls, bad) ==
    IF k + 1 > Len(seq)
    THEN [state |-> [st EXCEPT !.result = Value(<<"Recording has been played">>)],
          invoked |-> calls, failed |-> bad]
    ELSE LET action_name == Unpack(seq[k + 1])[1]
             arguments == Unpack(seq[k + 1])[2]
             after == invoke(st, brw, action_name, arguments, launch,
                             IF k + 1 = fails THEN how ELSE "ok")
             made == Append(calls, <<action_name, arguments>>)
             worst == IF bad = 0 /\ IsFailure(after.result) THEN Len(made) ELSE bad
         IN  IF IsError(after.result)
             THEN [state |-> [after EXCEPT !.result =
                        Value(<<"Error playing recording", after.result.raised>>)],
                   invoked |-> made, failed |-> worst]
             ELSE play_from_second(seq, k + 1, after, brw, launch, fails, how,
                                   made, worst)

RECURSIVE play(_, _, _, _, _, _, _, _, _)
\* the loop of play_recording from the k-th entry on: the state of the
\* server it leaves, the calls it made and the first of them that failed
play(seq, k, st, brw, launch, fails, how, calls, bad) ==
    IF k > Len(seq)
    THEN [state |-> [st EXCEPT !.result = Value(<<"Recording has been played">>)],
          invoked |-> calls, failed |-> bad]
    ELSE LET action_name == Unpack(seq[k])[1]
             arguments == Unpack(seq[k])[2]
             after == invoke(st, brw, action_name, arguments, launch,
                             IF k = fails THEN how ELSE "ok")
             made == Append(calls, <<action_name, arguments>>)
             worst == IF bad = 0 /\ IsFailure(after.result) THEN Len(made) ELSE bad
         IN  IF IsError(after.result)
             THEN [state |-> [after EXCEPT !.result =
                        Value(<<"Error playing recording", after.result.raised>>)],
                   invoked |-> made, failed |-> worst]
             ELSE play(seq, k + 1, after, brw, launch, fails, how, made, worst)

\* play_recording; fails is the entry at which the use of the driver goes
\* as how says (0: none)
play_recording(launch, fails, how) ==
    /\ (driver = None /\ \E k \in 1..Len(sequence_recorded) :
            Unpack(sequence_recorded[k])[1] \in Ensuring) => created < MaxSessions
    /\ fails \in 0..Len(sequence_recorded)
    /\ op' = <<"play_recording">>
    /\ \E e \in {play(sequence_recorded, 1, ServerState, browser, launch, fails,
                     how, <<>>, 0)} :
           /\ driver' = e.state.driver
           /\ sessions' = e.state.sessions
           /\ created' = e.state.created
           /\ last_action' = e.state.last_action
           /\ timeout' = e.state.timeout
           /\ waited' = e.state.waited
           /\ result' = e.state.result
           /\ invoked' = e.invoked
           /\ failed' = e.failed
    /\ UNCHANGED <<browser, sequence_recorded, files, saved>>

\* the browser goes away on its own (it crashes, or its window is closed)
SessionDies ==
    /\ sessions # {}
    /\ sessions' = {}
    /\ UNCHANGED <<browser, driver, created, last_action, op, result, timeout, waited>>

Init == LoopInit /\ ServerInit /\ RecorderInit /\ PageInit /\ TaskInit

Next ==
    \/ (\E reset \in BOOLEAN, ceiling \in Ceilings : ProcessQuery(reset, ceiling))
           /\ UNCHANGED <<srvvars, taskvars>>
    \/ GetMcpToolsReturns /\ UNCHANGED <<srvvars, taskvars>>
    \/ GetMcpToolsRaises /\ UNCHANGED <<srvvars, taskvars>>
    \/ (\E output \in ModelOutputs(RoundNo, next_id) : ModelReturns(output))
           /\ UNCHANGED <<srvvars, taskvars>>
    \/ ModelRaises /\ UNCHANGED <<srvvars, taskvars>>
    \/ (\E texts \in ToolResults : CallToolReturns(texts)) /\ UNCHANGED <<srvvars, taskvars>>
    \/ CallToolRaises /\ UNCHANGED <<srvvars, taskvars>>

\* the agent loop of one client
Spec == Init /\ [][Next]_vars

\* what the handlers of the browser session leave alone
SessionFrame == UNCHANGED <<loopvars, taskvars, pagevars, tiervars, recvars>>

ServerNext ==
    \/ (\E launch \in Launches : start_browser(launch)) /\ SessionFrame
    \/ (\E quit \in Quits : quit_browser(quit)) /\ SessionFrame
    \/ (\E name \in BrowserNames, quit \in Quits : change_browser(name, quit))
           /\ SessionFrame
    \/ (\E url \in Urls, launch \in Launches : go_to(url, launch))
           /\ SessionFrame
    \/ SessionDies /\ SessionFrame
    \/ (\E transport \in Transports, advanced_tools \in BOOLEAN :
            run(transport, advanced_tools)) /\ UNCHANGED <<loopvars, taskvars, pagevars, recvars>>
    \/ enable_advanced_tools /\ UNCHANGED <<loopvars, taskvars, pagevars, recvars>>

\* the handlers of one server
ServerSpec == Init /\ [][ServerNext]_vars

HandlerNext ==
    \/ quit_browser("ok") /\ SessionFrame
    \/ SessionDies /\ SessionFrame
    \/ (\E url \in Urls, launch \in Launches : go_to(url, launch))
           /\ SessionFrame
    \/ (\E env \in EnvsNoWait : get_current_url(env[1], env[2])) /\ SessionFrame
    \/ (\E env \in EnvsNoWait : refresh(env[1], env[2]))
           /\ SessionFrame
    \/ (\E env \in EnvsNoWait : back(env[1], env[2]))
           /\ SessionFrame
    \/ (\E env \in EnvsNoWait : forward(env[1], env[2]))
           /\ SessionFrame
    \/ (\E env \in EnvsNoWait : delete_cookies(env[1], env[2])) /\ SessionFrame
    \/ (\E seconds \in Timeouts : set_timeout(seconds)) /\ SessionFrame
    \/ (\E le \in LocatorEnvs : click(le[1], le[2], le[3])) /\ SessionFrame
    \/ (\E le \in LocatorEnvs : clear_text(le[1], le[2], le[3])) /\ SessionFrame
    \/ (\E le \in LocatorEnvs : type_text(le[1], le[2], le[3])) /\ SessionFrame
    \/ (\E le \in LocatorEnvs : submit_form(le[1], le[2], le[3]))
           /\ SessionFrame
    \/ (\E extra \in ScriptArgs, env \in EnvsNoWait :
            execute_script(extra, env[1], env[2])) /\ SessionFrame
    \/ (\E kwargs \in CookieKwargs, env \in EnvsNoWait :
            set_cookie(kwargs, env[1], env[2])) /\ SessionFrame
    \/ (\E by \in Bys, how \in Outcomes : get_element_xpath(by, how))
           /\ SessionFrame
    \/ (\E how \in Outcomes \ {"timeout"} :
            get_page_summary(SummaryDefaults, how)) /\ SessionFrame
    \/ (\E env \in EnvsNoWait : get_title(env[1], env[2])) /\ SessionFrame
    \/ (\E env \in EnvsNoWait : get_cookies(env[1], env[2])) /\ SessionFrame
    \/ (\E le \in LocatorEnvs : get_element_text(le[1], le[2], le[3]))
           /\ SessionFrame
    \/ (\E le \in LocatorEnvs : get_element_attribute(le[1], le[2], le[3]))
           /\ SessionFrame
    \/ (\E le \in LocatorEnvs : find_elements(le[1], le[2], le[3]))
           /\ SessionFrame
    \/ (\E le \in LocatorEnvs : count_elements(le[1], le[2], le[3]))
           /\ SessionFrame
    \/ (\E le \in LocatorEnvs : element_exists(le[1], le[2], le[3]))
           /\ SessionFrame
    \/ (\E le \in LocatorEnvs, seconds \in WaitTimeouts :
            wait_for_element(le[1], seconds, le[2], le[3])) /\ SessionFrame
    \/ (\E env \in Envs, seconds \in WaitTimeouts :
            wait_for_text(seconds, env[1], env[2])) /\ SessionFrame

\* the handlers of one server that use the browser
HandlerSpec == Init /\ [][HandlerNext]_vars

\* what the handlers outside the recorder leave of it: they call no handler
\* through play_recording
RecorderFrame ==
    /\ invoked' = <<>>
    /\ failed' = 0
    /\ UNCHANGED <<loopvars, taskvars, pagevars, tiervars, sequence_recorded, files, saved>>

RecorderNext ==
    \/ (\E env \in Envs : click("css selector", env[1], env[2]))
           /\ RecorderFrame
    \/ (\E launch \in Launches : go_to(<<"a.example">>, launch)) /\ RecorderFrame
    \/ record_last_action /\ UNCHANGED <<loopvars, taskvars, pagevars, tiervars>>
    \/ reset_recording /\ UNCHANGED <<loopvars, taskvars, pagevars, tiervars>>
    \/ (\E reset \in BOOLEAN, saving \in Savings, now \in Seconds :
            save_recording(reset, saving, now))
           /\ UNCHANGED <<loopvars, taskvars, pagevars, tiervars>>
    \/ (\E filename \in FileNames, loading \in Loadings :
            load_recording(filename, loading)) /\ UNCHANGED <<loopvars, taskvars, pagevars, tiervars>>
    \/ (\E launch \in Launches, fails \in 0..Len(sequence_recorded),
            how \in Outcomes \ {"ok"} :
            /\ launch = "ok" \/ fails = 0
            /\ fails = 0 => how = "raises"
            /\ play_recording(launch, fails, how))
           /\ UNCHANGED <<loopvars, taskvars, pagevars, tiervars>>

\* the recorder of one server
RecorderSpec == Init /\ [][RecorderNext]_vars

PageFrame == UNCHANGED <<loopvars, taskvars, tiervars, recvars>>

SummaryNext ==
    \/ start_browser("ok") /\ SessionFrame
    \/ (\E node \in SummaryNodes : page_changes(node[1], node[2])) /\ PageFrame
    \/ (\E args \in SummaryArgs : get_page_summary(args, "ok")) /\ SessionFrame

\* the summary of the pages of one browser
SummarySpec == Init /\ [][SummaryNext]_vars

ExtractNext ==
    \/ start_browser("ok") /\ SessionFrame
    \/ (\E node \in HtmlNodes : page_changes(node[1], node[2])) /\ PageFrame
    \/ (\E depth \in Depths, prettify \in BOOLEAN :
            get_element_html(depth, prettify)) /\ SessionFrame

\* the HTML of the pages of one browser, cut at a depth
ExtractSpec == Init /\ [][ExtractNext]_vars

\* the number the texts of the model round awaited by caller t carry
TaskRoundNo(t) == tasks[t].query * MaxRounds + tasks[t].iterations

\* what the model answers a caller here: a final text, one call, two calls
TaskOutputs(n, id) ==
    { <<TextItem(ModelText(n))>>,
      <<FunctionCallItem(id, ValidJson)>>,
      <<FunctionCallItem(id, ValidJson), FunctionCallItem(id + 1, ValidJson)>> }

\* what call_tool answers a caller here
TaskResults == { <<Plain>> }

ConcurrentNext ==
    \/ (\E t \in Tasks, reset \in BOOLEAN, ceiling \in Ceilings :
            TaskProcessQuery(t, reset, ceiling)) /\ UNCHANGED srvvars
    \/ (\E t \in Tasks : TaskGetMcpToolsReturns(t)) /\ UNCHANGED srvvars
    \/ (\E t \in Tasks : \E output \in TaskOutputs(TaskRoundNo(t), next_id) :
            TaskModelReturns(t, output)) /\ UNCHANGED srvvars
    \/ (\E t \in Tasks, texts \in TaskResults : TaskCallToolReturns(t, texts))
           /\ UNCHANGED srvvars

\* two callers of process_query on one client
ConcurrentSpec == Init /\ [][ConcurrentNext]_vars

\* the handlers that act on an element and check the strategy themselves
MutatingLocators == {"click", "type_text", "clear_text"}

StrategyNext ==
    \/ (\E by \in Bys, launch \in Launches : click(by, launch, "ok"))
           /\ RecorderFrame
    \/ (\E by \in Bys, launch \in Launches : type_text(by, launch, "ok"))
           /\ RecorderFrame
    \/ (\E by \in Bys, launch \in Launches : clear_text(by, launch, "ok"))
           /\ RecorderFrame
    \/ quit_browser("ok") /\ RecorderFrame
    \/ record_last_action /\ UNCHANGED <<loopvars, taskvars, pagevars, tiervars>>
    \/ reset_recording /\ UNCHANGED <<loopvars, taskvars, pagevars, tiervars>>
    \/ (\E launch \in Launches : play_recording(launch, 0, "raises"))
           /\ UNCHANGED <<loopvars, taskvars, pagevars, tiervars>>

\* the recorder with the handlers that check the locator strategy
StrategySpec == Init /\ [][StrategyNext]_vars

(***************************************************************************)
(* Properties of the agent loop.                                           *)
(***************************************************************************)
IsPrefix(a, b) == Len(a) <= Len(b) /\ SubSeq(b, 1, Len(a)) = a
IsCallTurn(t) == "call_id" \in DOMAIN t /\ t.type = "function_call"
IsOutputTurn(t) == "call_id" \in DOMAIN t /\ t.type = "function_call_output"
HasReturned == "returned" \in DOMAIN outcome
Ended == pc = "idle" /\ outcome # NoOutcome
\* the running (or last) process_query got past the refresh of the tools
Started ==
    \/ pc \in {"model", "tool"}
    \/ pc = "idle" /\ outcome # NoOutcome /\ outcome # Raised("get_mcp_tools")
\* what the query kept of the conversation it was called on
Kept == IF reset_messages THEN <<>> ELSE base
\* the positions of the turns the query appended, its user turn first
OwnPositions == (Len(Kept) + 1)..Len(messages)
OutputsFor(id) ==
    {q \in 1..Len(messages) : IsOutputTurn(messages[q]) /\ messages[q].call_id = id}
\* the call turn at position p has exactly one output turn, placed after it
AnsweredOnce(p) ==
    /\ Cardinality(OutputsFor(messages[p].call_id)) = 1
    /\ \A q \in OutputsFor(messages[p].call_id) : q > p
\* the calls of the round under dispatch that have no answer yet
Pending ==
    IF pc = "tool"
    THEN {function_calls[k].call_id : k \in idx..Len(function_calls)}
    ELSE {}
OwnCallsAnswered ==
    \A p \in OwnPositions :
        IsCallTurn(messages[p]) => AnsweredOnce(p)
\* what the return statement makes of one turn
TurnText(t) == ReturnValue(<<t>>)

\* C1: whenever a query waits for the model or has returned, every
\* function_call turn it appended has exactly one function_call_output turn
\* with its call_id, placed after it; while a round is under dispatch the only
\* calls without an output are those of that round not yet answered.
C1_CallsAnswered ==
    (Started /\ (pc \in {"model", "tool"} \/ HasReturned)) =>
        \A p \in OwnPositions :
            IsCallTurn(messages[p]) =>
                IF messages[p].call_id \in Pending
                THEN OutputsFor(messages[p].call_id) = {}
                ELSE AnsweredOnce(p)

\* a second model round is awaited after a round of two calls
C1_Witness ==
    /\ pc = "model"
    /\ model_calls = 2
    /\ Cardinality({p \in OwnPositions : IsCallTurn(messages[p])}) = 2

\* C2: the iteration-limit error is raised with exactly max_iterations model
\* calls made by the query, all of them rounds with a function call; a query
\* never makes more model calls than its ceiling; and a query whose rounds
\* all held function calls, all dispatched, ends by that error at the ceiling.
C2_RaisesAtCeiling ==
    /\ outcome = Raised("RuntimeError") =>
           /\ model_calls = max_iterations
           /\ call_rounds = max_iterations
           /\ iterations = max_iterations + 1
    /\ model_calls <= max_iterations
    /\ pc = "model" => iterations = model_calls
    /\ (Ended /\ fault = "none" /\ dispatches = emitted
            /\ call_rounds = max_iterations) => outcome = Raised("RuntimeError")

\* the second query of a session runs into its own ceiling after the first did
C2_Witness ==
    /\ outcome = Raised("RuntimeError")
    /\ previous = Raised("RuntimeError")
    /\ max_iterations >= 1
    /\ model_calls = max_iterations

\* C3 as stated: a query of k <= ceiling rounds with function calls, all
\* dispatched, returns normally after exactly k model calls.
C3_ReturnsAfterKCalls ==
    (Ended /\ fault = "none" /\ dispatches = emitted
        /\ call_rounds >= 1 /\ call_rounds <= max_iterations) =>
        /\ HasReturned
        /\ model_calls = call_rounds

\* C3 amended: a query that returns after k >= 1 rounds with function calls
\* made k + 1 model calls (the last round holds no call), k + 1 <= ceiling,
\* and dispatched every call the model emitted; with k = ceiling the query
\* does not return: it ends by the iteration-limit error after k model calls,
\* having dispatched every call.
C3_ReturnsAfterKPlusOneCalls ==
    /\ (HasReturned /\ call_rounds >= 1) =>
           /\ model_calls = call_rounds + 1
           /\ model_calls <= max_iterations
           /\ dispatches = emitted
    /\ (Ended /\ fault = "none" /\ call_rounds >= 1
            /\ outcome # Raised("json.loads")) =>
           /\ dispatches = emitted
           /\ IF call_rounds < max_iterations
              THEN HasReturned
              ELSE outcome = Raised("RuntimeError") /\ model_calls = call_rounds

\* a query returned after one round of two calls and a closing round
C3_Witness ==
    /\ HasReturned
    /\ call_rounds = 1
    /\ emitted = 2
    /\ dispatches = 2

\* C4 as stated: a query whose first round holds no function call makes one
\* model call, dispatches nothing and returns the text of a turn of that round.
C4_ReturnsRoundText ==
    (HasReturned /\ call_rounds = 0) =>
        /\ model_calls = 1
        /\ dispatches = 0
        /\ \E p \in (Len(Kept) + 2)..Len(messages) :
               outcome.returned = TurnText(messages[p])

\* C5: at most one call_tool request is in flight; while one is, it is the
\* request of the call at the loop position, the requests of the round were
\* sent in the order of the model's calls, the calls before the position have
\* their output turn and the others have none.
C5_OneAtATime ==
    /\ Len(inflight) <= 1
    /\ pc # "tool" => inflight = <<>>
    /\ pc = "tool" =>
           /\ idx \in 1..Len(function_calls)
           /\ inflight = <<function_calls[idx].call_id>>
           /\ issued = [k \in 1..idx |-> function_calls[k].call_id]
           /\ \A k \in 1..Len(function_calls) :
                  (k < idx) <=> OutputsFor(function_calls[k].call_id) # {}
           /\ \A k \in 1..(Len(function_calls) - 1) :
                  function_calls[k].call_id < function_calls[k + 1].call_id

\* the second call of a round is in flight
C5_Witness ==
    /\ pc = "tool"
    /\ idx = 2
    /\ Len(inflight) = 1

\* the turns of b after its first n turns
Appended(n, b) == SubSeq(b, n + 1, Len(b))

\* C6: when a call_tool result of one piece comes back, the conversation grows
\* by exactly two turns if the piece starts with "base64," (the output turn of
\* the call with the placeholder text, then a user turn holding the caption
\* and the piece as a data URI) and by exactly one output turn holding the
\* piece verbatim otherwise.
C6_SinglePartResult ==
    [][(pc = "tool" /\ fault' = fault /\ Len(last_result') = 1) =>
        LET piece == last_result'[1]
            id == function_calls[idx].call_id
            new == Appended(Len(messages), messages')
        IN  /\ IsPrefix(messages, messages')
            /\ IF Len(piece) >= 7 /\ SubSeq(piece, 1, 7) = Base64Prefix
               THEN /\ Len(new) = 2
                    /\ new[1] = [type |-> "function_call_output", call_id |-> id,
                                 output |-> Placeholder]
                    /\ new[2].role = "user"
                    /\ new[2].content =
                           List(<< [type |-> "input_text", text |-> Caption(id)],
                                   [type |-> "input_image",
                                    image_url |-> DataUriPrefix \o piece] >>)
               ELSE /\ Len(new) = 1
                    /\ new[1] = [type |-> "function_call_output", call_id |-> id,
                                 output |-> piece]]_vars

\* an image result has just been folded into the conversation
C6_Witness ==
    /\ last_result = <<Image>>
    /\ Len(messages) >= 2
    /\ IsOutputTurn(messages[Len(messages) - 1])
    /\ messages[Len(messages) - 1].output = Placeholder
    /\ "role" \in DOMAIN messages[Len(messages)]

\* C7: once a query is past the refresh of the tools, without reset the
\* conversation it was called on is a prefix of the conversation, and with
\* reset the conversation starts with the query's user turn and holds no turn
\* of the conversation it was called on.
C7_HistoryKeptOrReset ==
    Started =>
        /\ ~reset_messages => IsPrefix(base, messages)
        /\ reset_messages =>
               /\ messages[1] = UserTurn(QueryText(queries))
               /\ \A p \in 1..Len(messages), j \in 1..Len(base) :
                      messages[p] # base[j]
        /\ messages[Len(Kept) + 1] = UserTurn(QueryText(queries))

\* the second query of a session reset a conversation that held turns
C7_Witness ==
    /\ Started
    /\ reset_messages
    /\ Len(base) >= 3
    /\ Len(messages) >= 2

\* C8 as stated: when the iteration-limit error has been raised, every
\* function_call turn of the conversation has its one function_call_output
\* turn.
C8_EveryCallAnswered ==
    outcome = Raised("RuntimeError") =>
        \A p \in 1..Len(messages) :
            IsCallTurn(messages[p]) => AnsweredOnce(p)

\* C8 amended: the step that raises the iteration-limit error removes no turn of the
\* query (nor, without reset, of the conversation it was called on), and
\* leaves the conversation with the query's user turn on top of what the
\* query kept and with every function_call turn of the query answered once
\* (a call that an earlier, aborted query left unanswered stays unanswered);
\* the call of process_query that follows leaves the conversation as it is,
\* and without reset it appends its user turn to exactly that conversation.
C8_LimitKeepsHistory ==
    [][/\ outcome' = Raised("RuntimeError") =>
              /\ pc = "tool" => IsPrefix(messages, messages')
              /\ IsPrefix(Kept', messages')
              /\ messages'[Len(Kept') + 1] = UserTurn(QueryText(queries))
              /\ OwnCallsAnswered'
       /\ (outcome = Raised("RuntimeError") /\ pc' = "tools") =>
              /\ messages' = messages
              /\ base' = messages
       /\ (pc = "tools" /\ previous = Raised("RuntimeError")
               /\ ~reset_messages /\ fault' = "none") =>
              /\ IsPrefix(messages, messages')
              /\ Appended(Len(messages), messages') =
                     <<UserTurn(QueryText(queries))>>]_vars

\* a query that follows an iteration-limit error, without reset, waits for
\* the model with the turns of the failed query still in the conversation
C8_Witness ==
    /\ previous = Raised("RuntimeError")
    /\ ~reset_messages
    /\ pc = "model"
    /\ \E p \in 1..Len(base) : IsCallTurn(base[p])

\* C9: when call_tool fails, process_query ends by that failure: no request
\* stays in flight, the requests sent in the round are those of the calls up
\* to the failed one, the failed call and the calls after it have no output
\* turn, and no model call is made beyond the rounds that held calls.
C9_TransportFailureAborts ==
    fault = "call_tool" =>
        /\ pc = "idle"
        /\ outcome = Raised("call_tool")
        /\ inflight = <<>>
        /\ issued = [k \in 1..idx |-> function_calls[k].call_id]
        /\ dispatches < emitted + 1
        /\ \A k \in idx..Len(function_calls) :
               OutputsFor(function_calls[k].call_id) = {}
        /\ model_calls = call_rounds

\* the first of two calls of a round failed
C9_Witness ==
    /\ fault = "call_tool"
    /\ idx = 1
    /\ Len(function_calls) = 2

\* C36: when call_tool fails, the step leaves the conversation as it is: the
\* user turn of the query is where the query put it, the function_call turns
\* of the round from the failed one on are in it without an output, and the
\* calls before it have their one output; the call of process_query that
\* follows takes that conversation as it is, and without reset its model call
\* is sent that conversation with the new user turn after it.
C36_NothingRolledBack ==
    [][/\ (pc = "tool" /\ fault' = "call_tool") =>
              /\ messages' = messages
              /\ messages'[Len(Kept) + 1] = UserTurn(QueryText(queries))
              /\ \A k \in 1..Len(function_calls) :
                     /\ \E p \in OwnPositions : messages'[p] = function_calls[k]
                     /\ Cardinality(OutputsFor(function_calls[k].call_id)) =
                            IF k < idx THEN 1 ELSE 0
       /\ (outcome = Raised("call_tool") /\ pc' = "tools") =>
              /\ base' = messages
              /\ messages' = messages
       /\ (previous = Raised("call_tool") /\ pc = "tools" /\ pc' = "model"
               /\ ~reset_messages) =>
              /\ messages = base
              /\ messages' = base \o <<UserTurn(QueryText(queries))>>]_vars

\* C36 case: a query failed at the second call of a round, after the output
\* of the first; the next query, without reset, waits for the model with the
\* answered and the unanswered call in front of its user turn
C36_Witness ==
    /\ previous = Raised("call_tool")
    /\ ~reset_messages
    /\ pc = "model"
    /\ \E p \in 1..Len(base), q \in 1..Len(base) :
           /\ IsCallTurn(base[p])
           /\ OutputsFor(base[p].call_id) = {}
           /\ IsOutputTurn(base[q])
    /\ IsPrefix(base, messages)

\* the pieces one after the other, ", " between two of them
RECURSIVE Joined(_)
Joined(pieces) ==
    IF Len(pieces) = 1 THEN pieces[1]
    ELSE pieces[1] \o <<",", " ">> \o Joined(Tail(pieces))

\* C31: when a call_tool result of two or more pieces comes back, the
\* conversation grows by exactly one turn, the function_call_output of the
\* call, whose output is "[", the pieces joined by ", ", and "]"; no image
\* turn is appended, whichever piece starts with "base64,".
C31_MultiPartResult ==
    [][(pc = "tool" /\ fault' = fault /\ Len(last_result') >= 2) =>
        /\ IsPrefix(messages, messages')
        /\ Appended(Len(messages), messages') =
               << [type |-> "function_call_output",
                   call_id |-> function_calls[idx].call_id,
                   output |-> <<"[">> \o Joined(last_result') \o <<"]">>] >>]_vars

\* a result of several pieces, an image among them, was folded into the
\* conversation as one output turn
C31_Witness ==
    /\ Len(last_result) >= 2
    /\ \E k \in 1..Len(last_result) : startswith(last_result[k], Base64Prefix)
    /\ IsOutputTurn(messages[Len(messages)])
    /\ messages[Len(messages)].output[1] = "["

\* C32: when the model answers with the items of a round, the conversation
\* grows by exactly one turn per item, in the order of the items: a
\* function_call turn for a function-call item, an assistant turn with the
\* text for a message of one output_text, an assistant turn with the content
\* list for any other message, and the item itself for any other type; the
\* calls queued for dispatch are the function_call turns among them, in
\* order, and nothing else.
C32_OneTurnPerItem ==
    [][\A output \in ModelOutputs(RoundNo, next_id) :
          ModelReturns(output) =>
              LET new == Appended(Len(messages), messages')
              IN  /\ IsPrefix(messages, messages')
                  /\ Len(new) = Len(output)
                  /\ \A k \in 1..Len(output) :
                         IF output[k].type = "function_call"
                         THEN new[k] = [type |-> "function_call",
                                        call_id |-> output[k].call_id,
                                        name |-> output[k].name,
                                        arguments |-> output[k].arguments]
                         ELSE IF output[k].type = "message"
                         THEN /\ new[k].role = "assistant"
                              /\ new[k].content =
                                     IF Len(output[k].content) = 1
                                            /\ output[k].content[1].type = "output_text"
                                     THEN Str(output[k].content[1].text)
                                     ELSE List(output[k].content)
                         ELSE new[k] = output[k]
                  /\ function_calls' = SelectSeq(new, IsCallTurn)]_vars

\* a query returned after a round of a text message and an item of unknown
\* type: both are in the conversation, the unknown one last
C32_Witness ==
    /\ HasReturned
    /\ Len(messages) >= 3
    /\ "id" \in DOMAIN messages[Len(messages)]
    /\ "role" \in DOMAIN messages[Len(messages) - 1]
    /\ messages[Len(messages) - 1].role = "assistant"

\* the call ids of the round caller t is dispatching (or dispatched last)
TaskCallIds(t) ==
    {tasks[t].function_calls[j].call_id : j \in 1..Len(tasks[t].function_calls)}
\* the positions of the requests in flight that caller t sent
TaskInFlight(t) == {k \in 1..Len(inflight) : inflight[k] \in TaskCallIds(t)}
\* the conversation msgs holds a call turn of caller t without its output
SeesUnanswered(msgs, t) ==
    \E p \in 1..Len(msgs) :
        /\ IsCallTurn(msgs[p])
        /\ msgs[p].call_id \in TaskCallIds(t)
        /\ \A q \in 1..Len(msgs) :
               ~(IsOutputTurn(msgs[q]) /\ msgs[q].call_id = msgs[p].call_id)

\* C33: with two process_query calls overlapping on one client, each caller
\* on its own stays sequential: it has one call_tool request in flight while
\* it waits for a tool and none otherwise, that request is the call at its
\* position of the for loop, and no call at or after that position has an
\* output turn yet.  (That the callers interleave on the conversation is the
\* reachable state C33_Witness.)
C33_SequentialWithinQuery ==
    \A t \in Tasks :
        /\ Cardinality(TaskInFlight(t)) = IF tasks[t].pc = "tool" THEN 1 ELSE 0
        /\ tasks[t].pc = "tool" =>
               /\ \A k \in TaskInFlight(t) :
                      inflight[k] = tasks[t].function_calls[tasks[t].idx].call_id
               /\ \A j \in tasks[t].idx..Len(tasks[t].function_calls) :
                      OutputsFor(tasks[t].function_calls[j].call_id) = {}

\* C33 case: the user turn of caller u stands between a function_call turn of
\* caller t and its output, and the model call caller u is waiting on was
\* sent a conversation holding that call of t without an output
C33_Witness ==
    \E t \in Tasks, u \in Tasks :
        /\ t # u
        /\ tasks[u].pc = "model"
        /\ SeesUnanswered(tasks[u].input, t)
        /\ \E p \in 1..Len(messages), r \in 1..Len(messages), q \in 1..Len(messages) :
               /\ p < r /\ r < q
               /\ IsCallTurn(messages[p])
               /\ messages[p].call_id \in TaskCallIds(t)
               /\ messages[r] = UserTurn(QueryText(tasks[u].query))
               /\ IsOutputTurn(messages[q])
               /\ messages[q].call_id = messages[p].call_id

(***************************************************************************)
(* Properties of the browser session.                                      *)
(***************************************************************************)
\* C10: at most one browser session is alive, and it is the one behind the
\* driver; a session is created only when there is no driver and no live
\* session; the browser type changes only in a step that leaves no driver and
\* no live session; and change_browser with a supported name either ends
\* with the driver none, no live session and the type set to that name, or
\* raises from the closing of the session with the type unchanged.
C10_OneSession ==
    [][/\ Cardinality(sessions') <= 1
       /\ sessions' \subseteq Session(driver')
       /\ (sessions' \ sessions) # {} => (driver = None /\ sessions = {})
       /\ browser' # browser => (driver' = None /\ sessions' = {})
       /\ (op' # op /\ op'[1] = "change_browser" /\ op'[2] \in BROWSER_OPTIONS) =>
              \/ /\ ~IsError(result')
                 /\ driver' = None
                 /\ sessions' = {}
                 /\ browser' = op'[2]
              \/ /\ IsError(result')
                 /\ driver # None
                 /\ browser' = browser]_vars

\* the type was changed while a session was running, and a session of the
\* new type has been started since
C10_Witness ==
    /\ browser = "firefox"
    /\ created = 2
    /\ driver = Handle(2)
    /\ sessions = {2}

\* C11: a call of start_browser made while there is a driver creates no
\* session, leaves the driver, the live sessions and the browser type as they
\* are, and reports that the browser is already running.
C11_StartTwiceNoOp ==
    [][((\E launch \in Launches : start_browser(launch)) /\ driver # None) =>
          /\ driver' = driver
          /\ sessions' = sessions
          /\ created' = created
          /\ browser' = browser
          /\ result' = Value(<<browser, "browser already running">>)]_vars

\* start_browser was called on a running session
C11_Witness ==
    /\ op = <<"start_browser">>
    /\ result = Value(<<browser, "browser already running">>)
    /\ driver = Handle(1)
    /\ sessions = {1}
    /\ created = 1

\* the handlers whose body reads self.driver
BrowserTouching ==
    Ensuring \cup {"get_page_summary", "get_element_xpath"}

\* C12 as stated: after any handler that uses the browser there is a
\* driver, unless the launch of the browser itself failed; no such handler
\* runs against a missing session.
C12_SessionBeforeUse ==
    op[1] \in BrowserTouching =>
        \/ driver # None
        \/ result = Error("WebDriverException")

(***************************************************************************)
(* Properties of the tool tiers.                                           *)
(***************************************************************************)
Range(f) == {f[k] : k \in DOMAIN f}
NoDuplicates(f) == \A i, j \in DOMAIN f : f[i] = f[j] => i = j

\* C13: no step removes or reorders a registered tool; once
\* advanced_tools_enabled is true it stays true; and a call of
\* enable_advanced_tools made while it is true registers nothing and reports
\* that the advanced tools are already enabled.
C13_TierMonotonic ==
    [][/\ IsPrefix(tools, tools')
       /\ advanced_tools_enabled => advanced_tools_enabled'
       /\ (enable_advanced_tools /\ advanced_tools_enabled) =>
              /\ tools' = tools
              /\ result' = Value(<<"Advanced tools already enabled">>)
       /\ (enable_advanced_tools /\ ~advanced_tools_enabled) =>
              /\ advanced_tools_enabled'
              /\ result' = Value(<<"Advanced tools enabled">>)]_vars

\* enable_advanced_tools was called on a server started with the advanced tier
C13_Witness ==
    /\ op = <<"enable_advanced_tools">>
    /\ result = Value(<<"Advanced tools already enabled">>)
    /\ advanced_tools_enabled
    /\ Len(tools) > Len(BasicTier)

\* C14: the registered tools are the eight basic tools while the advanced
\* tools are disabled, and the basic tools together with the tools of the
\* advanced tier once they are enabled; no tool is registered twice.
C14_ToolsMatchTier ==
    LET basic == {"go_to", "back", "get_current_url", "click", "type_text",
                  "get_page_summary", "take_screenshot_as_base64",
                  "enable_advanced_tools"}
    IN  /\ NoDuplicates(tools)
        /\ basic \cap Range(AdvancedTier) = {}
        /\ Range(tools) = IF advanced_tools_enabled
                          THEN basic \cup Range(AdvancedTier)
                          ELSE basic

\* the advanced tier was enabled by a tool call after some other handler ran
C14_Witness ==
    /\ advanced_tools_enabled
    /\ op = <<"enable_advanced_tools">>
    /\ result = Value(<<"Advanced tools enabled">>)
    /\ Cardinality(Range(tools)) = Len(BasicTier) + Len(AdvancedTier)
    /\ driver # None

(***************************************************************************)
(* Properties of the recorder.                                             *)
(***************************************************************************)
\* the primitives that change the browser or the server
MutatingPrimitives ==
    {"go_to", "back", "forward", "refresh", "click", "type_text", "clear_text",
     "submit_form", "execute_script", "set_cookie", "delete_cookies",
     "set_timeout"}

\* C15 as stated: after a call of a mutating primitive the last action is
\* that call: its name and the arguments it was called with.
C15_MutatingRemembered ==
    op[1] \in MutatingPrimitives => last_action = <<op[1], op[2]>>

Loaded == result.returned[1] = "Recording loaded"
Played == result = Value(<<"Recording has been played">>)

\* C16: record_last_action with no remembered action returns the result
\* that says so, raises nothing and leaves the sequence and the last action
\* as they are; with a remembered action the sequence grows by one entry at
\* its end, that entry is the last action, the entries before it are the old
\* sequence, and the last action stays.
C16_RecordAppends ==
    [][op' = <<"record_last_action">> =>
          /\ last_action' = last_action
          /\ ~IsError(result')
          /\ IF last_action = None
             THEN /\ sequence_recorded' = sequence_recorded
                  /\ result' = Value(<<"Last action does not exist">>)
             ELSE /\ Len(sequence_recorded') = Len(sequence_recorded) + 1
                  /\ IsPrefix(sequence_recorded, sequence_recorded')
                  /\ Unpack(sequence_recorded'[Len(sequence_recorded')]) =
                         last_action
                  /\ result' # Value(<<"Last action does not exist">>)]_vars

\* a second, different action has been recorded
C16_Witness ==
    /\ op = <<"record_last_action">>
    /\ Len(sequence_recorded) = 2
    /\ Unpack(sequence_recorded[1]) # Unpack(sequence_recorded[2])
    /\ Unpack(sequence_recorded[2]) = last_action

\* C17: a save_recording that succeeds with reset_recording true leaves no
\* last action and an empty sequence; one that succeeds without it, or that
\* fails, leaves both as they were.
C17_SaveResetsBoth ==
    [][op'[1] = "save_recording" =>
          IF result'.returned[1] = "Recording saved" /\ op'[2].reset_recording
          THEN /\ last_action' = None
               /\ sequence_recorded' = <<>>
          ELSE /\ last_action' = last_action
               /\ sequence_recorded' = sequence_recorded]_vars

\* a recording of two actions was saved and reset
C17_Witness ==
    /\ op = <<"save_recording", [reset_recording |-> TRUE]>>
    /\ result.returned[1] = "Recording saved"
    /\ result.returned[2] = 2
    /\ last_action = None
    /\ sequence_recorded = <<>>

\* C18: a load_recording that succeeds leaves a sequence with one entry for
\* each entry of the file, in the order of the file, each the list of the
\* name and the arguments stored there, and nothing of the sequence it was
\* called on; the last action stays.  A load that fails leaves both.
C18_LoadReplaces ==
    [][op'[1] = "load_recording" =>
          /\ last_action' = last_action
          /\ IF ~IsError(result') /\ result'.returned[1] = "Recording loaded"
             THEN LET text == files[op'[2].filename].text
                  IN  /\ Len(sequence_recorded') = Len(text)
                      /\ \A k \in 1..Len(text) :
                             sequence_recorded'[k] =
                                 List(<<text[k].array[1].string,
                                        text[k].array[2].object>>)
             ELSE sequence_recorded' = sequence_recorded]_vars

\* a file of one action was loaded over a sequence, with another action
\* remembered last
C18_Witness ==
    /\ op[1] = "load_recording"
    /\ ~IsError(result)
    /\ Loaded
    /\ Len(sequence_recorded) = 1
    /\ last_action # None
    /\ Unpack(sequence_recorded[1]) # last_action

\* C19: a file that save_recording wrote reads back as the pairs of name and
\* arguments of the sequence it was saved from, in the same order; and a
\* load_recording of it that succeeds leaves exactly those pairs, whatever was
\* reset or recorded since the save.
C19_SaveLoadRoundTrip ==
    [][/\ \A name \in FileNames :
              files'[name].state = "written" =>
                  Pairs(json_load(files'[name].text)) = saved'[name]
       /\ (op'[1] = "load_recording" /\ ~IsError(result')
               /\ result'.returned[1] = "Recording loaded") =>
              Pairs(sequence_recorded') = saved[op'[2].filename]]_vars

\* a recording of two different actions was saved with reset and loaded back
C19_Witness ==
    /\ op[1] = "load_recording"
    /\ ~IsError(result)
    /\ Loaded
    /\ Len(sequence_recorded) = 2
    /\ Unpack(sequence_recorded[1]) # Unpack(sequence_recorded[2])
    /\ Pairs(sequence_recorded) = saved[op[2].filename]

\* C20: the calls play_recording made are the first entries of the sequence,
\* each once, in the order of the sequence, by the stored name with the
\* stored arguments; when it reports that the recording has been played they
\* are all the entries, and otherwise the last call made is the one that
\* raised.
C20_PlayInOrder ==
    op = <<"play_recording">> =>
        /\ Len(invoked) <= Len(sequence_recorded)
        /\ \A k \in 1..Len(invoked) : invoked[k] = Unpack(sequence_recorded[k])
        /\ IF Played
           THEN Len(invoked) = Len(sequence_recorded)
           ELSE /\ Len(invoked) >= 1
                /\ result.returned[1] = "Error playing recording"
                /\ last_action = invoked[Len(invoked)]

\* a recording of two different actions has been played to its end
C20_Witness ==
    /\ op = <<"play_recording">>
    /\ Played
    /\ Len(invoked) = 2
    /\ invoked[1] # invoked[2]

\* C21 as stated: when a replayed step fails, by an exception or by the
\* result of a timeout or of a browser error, play_recording stops there: it
\* does not report the recording as played and the failed step is the last
\* call it made.
C21_FailedStepAborts ==
    (op = <<"play_recording">> /\ failed # 0) =>
        /\ ~Played
        /\ Len(invoked) = failed

(***************************************************************************)
(* Properties of the handlers' failures.                                   *)
(***************************************************************************)
\* C22 as stated: a handler that takes a locator strategy, called with a
\* strategy outside BY_OPTIONS on a browser that started and is alive,
\* returns its invalid-strategy value: it raises nothing and the result is
\* not that of a lookup the driver refused.
C22_InvalidStrategyValue ==
    (/\ op[1] \in Locating
     /\ op[2].by \notin BY_OPTIONS
     /\ result # Error("WebDriverException")) =>
        /\ ~IsError(result)
        /\ result = Value(invalid_by(op[1], op[2].by))

(***************************************************************************)
(* Properties of the page summary.                                         *)
(***************************************************************************)
\* get_page_summary has returned a list
IsSummary ==
    /\ op[1] = "get_page_summary"
    /\ ~IsError(result)
    /\ result.returned[1] = "summary"

\* the entries the last get_page_summary returned
Entries == result.returned[2]

\* the whole list of the last get_page_summary, before the page is cut out
Full ==
    summarize_forms_buttons_links_and_text(
        page_source, op[2].filter_type, op[2].only_visible_elements)

\* the element of the page that a path was built for
NodeAt(xpath) ==
    CHOOSE i \in 1..Len(page_source) : build_xpath(page_source, i) = xpath

\* the page that get_page_summary returns for skip_elements = k * m and
\* max_elements = m, the other arguments as in the last call
PageNo(k, m) ==
    page_summary(page_source,
                 [op[2] EXCEPT !.skip_elements = k * m, !.max_elements = m])

\* the pages k, k + 1, ... one after the other
RECURSIVE PagesFrom(_, _)
PagesFrom(k, m) ==
    IF k > MaxNodes THEN <<>> ELSE PageNo(k, m) \o PagesFrom(k + 1, m)

\* C24: after a get_page_summary on a page, for every m >= 1 the pages for
\* skip_elements = 0, m, 2m, ... with max_elements = m, put one after the
\* other, are the whole filtered list; every entry of that list is on exactly
\* one page, every entry carries the length of the whole list as its total,
\* and the page the call returned is the one of its skip_elements.
C24_PagesPartition ==
    IsSummary =>
        /\ \A m \in 1..MaxNodes :
               /\ PagesFrom(0, m) = Full
               /\ \A i \in 1..Len(Full) :
                      Cardinality({at \in (0..MaxNodes) \X (1..MaxNodes) :
                                       /\ at[2] <= Len(PageNo(at[1], m))
                                       /\ PageNo(at[1], m)[at[2]] = Full[i]}) = 1
               /\ \A k \in 0..MaxNodes : \A j \in 1..Len(PageNo(k, m)) :
                      PageNo(k, m)[j].index[2] = Len(Full)
        /\ (op[2].skip_elements >= 0
                /\ op[2].skip_elements % op[2].max_elements = 0) =>
               Entries = PageNo(op[2].skip_elements \div op[2].max_elements,
                                 op[2].max_elements)

\* the second page of two elements was returned, and it is not empty
C24_Witness ==
    /\ IsSummary
    /\ op[2].skip_elements = 2
    /\ op[2].max_elements = 2
    /\ Len(Full) = 3
    /\ Len(Entries) = 1

\* the place of a type in the order button, link, form, text
Priority(t) ==
    CHOOSE n \in 1..4 : <<"button", "link", "form", "text">>[n] = t

\* C25: in the list get_page_summary builds before it cuts the page out, the
\* types come in the order button, link, form, text, and two entries of one
\* type are in the order their elements have in the document.
C25_SortedByTypeStable ==
    IsSummary =>
        \A i \in 1..Len(Full) : \A j \in (i + 1)..Len(Full) :
            /\ Priority(Full[i].type) <= Priority(Full[j].type)
            /\ Full[i].type = Full[j].type =>
                   NodeAt(Full[i].element.xpath) < NodeAt(Full[j].element.xpath)

\* a list of three: an element of a later type stood before the others in
\* the document, and two entries have one type
C25_Witness ==
    /\ IsSummary
    /\ Len(Full) = 3
    /\ \E i \in 1..3 : \E j \in (i + 1)..3 :
           NodeAt(Full[i].element.xpath) > NodeAt(Full[j].element.xpath)
    /\ \E i \in 1..3 : \E j \in (i + 1)..3 : Full[i].type = Full[j].type

\* the elements of the page that pass the type filter and the visibility
\* gate of the last call
Passing ==
    {i \in 1..Len(page_source) :
        /\ page_source[i].name \in summary_tags
        /\ op[2].filter_type \in {"", type(page_source[i].name)}
        /\ op[2].only_visible_elements => page_source[i].shown = "displayed"}

Displayed(xpath) == page_source[NodeAt(xpath)].shown = "displayed"

\* C27: with only_visible_elements, every entry get_page_summary returns,
\* and every input and button entry of a form it returns, is of an element
\* the live session shows (one it does not find is not shown); with a
\* filter_type, every entry has that type.
C27_NoHiddenReturned ==
    IsSummary =>
        /\ op[2].only_visible_elements =>
               \A k \in 1..Len(Entries) :
                   /\ Displayed(Entries[k].element.xpath)
                   /\ \A n \in 1..Len(Entries[k].inputs) :
                          Displayed(Entries[k].inputs[n].xpath)
                   /\ \A n \in 1..Len(Entries[k].buttons) :
                          Displayed(Entries[k].buttons[n].xpath)
        /\ op[2].filter_type # "" =>
               \A k \in 1..Len(Entries) : Entries[k].type = op[2].filter_type

\* a form was returned that has an input the session does not find and a
\* hidden button
C27_Witness ==
    /\ IsSummary
    /\ op[2].only_visible_elements
    /\ \E k \in 1..Len(Entries) :
           /\ Entries[k].type = "form"
           /\ \E i, j \in 1..Len(page_source) :
                  /\ NodeAt(Entries[k].element.xpath) \in parents(page_source, i)
                  /\ NodeAt(Entries[k].element.xpath) \in parents(page_source, j)
                  /\ page_source[i] = Node("input", page_source[i].parent, "absent")
                  /\ page_source[j] = Node("button", page_source[j].parent, "hidden")

\* the elements with the parent and the name of element i, i among them
SameTag(i) ==
    {j \in 1..Len(page_source) :
        /\ page_source[j].parent = page_source[i].parent
        /\ page_source[j].name = page_source[i].name}

\* the last step of the path of element i
LastStep(i) ==
    build_xpath(page_source, i)[Len(build_xpath(page_source, i))]

\* C28: on every page, build_xpath ends the paths of two elements with one
\* parent and one name differently; the path of an element that is alone
\* with its name under its parent ends with the name, without a position;
\* a position [n] is there only when other elements with that name are
\* under the parent, and n counts the element among them from 1.
C28_SiblingSteps ==
    \A i \in 1..Len(page_source) :
        /\ \A j \in SameTag(i) \ {i} : LastStep(i) # LastStep(j)
        /\ SameTag(i) = {i} => LastStep(i) = <<page_source[i].name>>
        /\ Len(LastStep(i)) = 2 =>
               /\ SameTag(i) # {i}
               /\ LastStep(i) =
                      <<page_source[i].name,
                        Cardinality({j \in SameTag(i) : j <= i})>>

\* a summary with the paths of a second element of its name and of an
\* element that is alone with its name
C28_Witness ==
    /\ IsSummary
    /\ \E k \in 1..Len(Entries) :
           Len(Entries[k].element.xpath[Len(Entries[k].element.xpath)]) = 2
    /\ \E k \in 1..Len(Entries) :
           /\ SameTag(NodeAt(Entries[k].element.xpath))
                  = {NodeAt(Entries[k].element.xpath)}
           /\ Len(Entries[k].element.xpath) = 2

\* C37: on every page, the first element in document order that the path
\* build_xpath made for an element selects in the same tree is that element,
\* also when the path has steps without a position that select several
\* elements; so the paths of two elements differ, and the answer the probe
\* keeps for a path is the answer for the element the path was made for.
C37_PathFindsItsElement ==
    \A i \in 1..Len(page_source) :
        /\ find_element(page_source, build_xpath(page_source, i)) = <<i>>
        /\ \A j \in 1..Len(page_source) :
               j # i => build_xpath(page_source, j) # build_xpath(page_source, i)
        /\ is_element_visible_by_xpath(page_source, build_xpath(page_source, i))
               = (page_source[i].shown = "displayed")

\* C37 case: a summary was made of a page where the path of an element has no
\* position in its last step and selects a second element too, which the
\* live session shows differently
C37_Witness ==
    /\ IsSummary
    /\ \E i \in 1..Len(page_source), j \in 1..Len(page_source) :
           /\ i < j
           /\ Len(LastStep(i)) = 1
           /\ {i, j} \subseteq select(page_source, build_xpath(page_source, i))
           /\ page_source[i].shown = "hidden"
           /\ page_source[j].shown = "displayed"

(***************************************************************************)
(* Properties of the HTML cut at a depth.                                  *)
(***************************************************************************)
\* C29 as stated: get_element_html of the page with depth >= 0 returns the
\* nodes at the levels 1 to depth below the document, all of them and no
\* other (none for depth 0), and with a negative depth it returns the whole
\* tree.
C29_CutAtDepth ==
    op[1] = "get_element_html" =>
        /\ ~IsError(result)
        /\ result.returned[1] = "html"
        /\ result.returned[2] =
               IF op[2].depth < 0 THEN Whole(page_source)
               ELSE {i \in 1..Len(page_source) :
                        get_depth(page_source, i) <= op[2].depth}

\* the handlers C23 names
FailureReturning ==
    {"go_to", "back", "forward", "refresh", "delete_cookies",
     "get_current_url", "get_title", "get_cookies", "get_page_summary",
     "click", "type_text"}

\* C23 as stated: no tool handler lets a browser failure through as an
\* exception.
C23_FailuresReturned ==
    op[1] \in FailureReturning => ~IsError(result)

\* C30 as stated: on a server whose browser is running, each handler that
\* takes a locator strategy answers an unsupported strategy with a result
\* different from the one it gives when the element is not there (a timeout
\* of the wait, or nothing found by an immediate lookup).
C30_OutcomesDistinct ==
    (driver # None /\ Session(driver) \subseteq sessions) =>
        \A name \in Locating :
            invoke(ServerState, browser, name, LocatorArgs(name, "bogus"),
                   "ok", "ok").result
                # invoke(ServerState, browser, name,
                         LocatorArgs(name, "css selector"), "ok", "timeout").result

(***************************************************************************)
(* Properties of change_browser and of the invalid strategy.               *)
(***************************************************************************)
\* C38: change_browser with a name outside BROWSER_OPTIONS returns the
\* invalid-browser result and leaves the driver, the live sessions, the
\* browser type and the number of sessions created as they are; with a
\* supported name (the configured one included) it ends, unless the closing
\* of the session raised, with no driver, no live session, the type set to
\* the name and no session created; a session is created only by
\* start_browser or a handler that calls _ensure_browser_started.
C38_InvalidNameChangesNothing ==
    [][/\ \A name \in BrowserNames, quit \in Quits :
              change_browser(name, quit) =>
                  /\ name \notin BROWSER_OPTIONS =>
                         /\ result' = Value(<<"Invalid browser", name>>)
                         /\ UNCHANGED <<browser, driver, sessions, created>>
                  /\ (name \in BROWSER_OPTIONS /\ ~IsError(result')) =>
                         /\ driver' = None
                         /\ sessions' = {}
                         /\ browser' = name
                         /\ created' = created
       /\ created' # created => op'[1] \in Ensuring \cup {"start_browser"}]_vars

\* C38 case: change_browser to the configured type closed the one session
\* that was ever started
C38_Witness ==
    /\ op = <<"change_browser", "chrome">>
    /\ result = Value(<<"Browser set to", "chrome">>)
    /\ browser = "chrome"
    /\ created = 1
    /\ driver = None
    /\ sessions = {}

\* the remembered action is a call with a strategy outside BY_OPTIONS
InvalidCall(a) == a # None /\ a[2].by \notin BY_OPTIONS

\* C39: click, type_text and clear_text called with a strategy outside
\* BY_OPTIONS make the call the last action and, unless the launch fails,
\* return the invalid-strategy text with a browser running (a new one when
\* there was no driver); record_last_action after such a call appends it;
\* and play_recording calls every recorded entry it gets to with the
\* arguments recorded, the invalid strategy included, and gets to all of them
\* when no launch fails.
C39_InvalidCallHasEffects ==
    [][/\ \A name \in MutatingLocators, launch \in Launches :
              call(name, LocatorArgs(name, "bogus"), launch, "ok") =>
                  /\ last_action' = <<name, LocatorArgs(name, "bogus")>>
                  /\ launch = "ok" =>
                         /\ result' = Value(<<"Invalid by", "bogus">>)
                         /\ driver' # None
                         /\ Session(driver') \subseteq sessions'
                         /\ driver = None => created' = created + 1
       /\ (record_last_action /\ InvalidCall(last_action)) =>
              /\ Len(sequence_recorded') = Len(sequence_recorded) + 1
              /\ Unpack(sequence_recorded'[Len(sequence_recorded')]) = last_action
              /\ SubSeq(sequence_recorded', 1, Len(sequence_recorded)) =
                     sequence_recorded
       /\ \A launch \in Launches :
              play_recording(launch, 0, "raises") =>
                  /\ \A k \in 1..Len(invoked') :
                         invoked'[k] = Unpack(sequence_recorded[k])
                  /\ launch = "ok" => Len(invoked') = Len(sequence_recorded)]_vars

\* C39 case: a replay ran a recorded click with the unsupported strategy on
\* a server whose only browser was started by such a call
C39_Witness ==
    /\ op = <<"play_recording">>
    /\ Len(invoked) >= 1
    /\ \A k \in 1..Len(invoked) : invoked[k][2].by = "bogus"
    /\ last_action = invoked[Len(invoked)]
    /\ result = Value(<<"Recording has been played">>)
    /\ created = 1
    /\ driver # None

(***************************************************************************)
(* Properties of the timed waits.                                          *)
(***************************************************************************)
\* the last handler was wait_for_element or wait_for_text and it got as far
\* as its WebDriverWait
TimedWaitBuilt == op[1] \in TimedWaits /\ waited # None

\* C34: a wait_for_element or wait_for_text called with timeout -1 builds
\* its wait with self.timeout (the value last set by set_timeout, 10 at the
\* start), not with -1.
C34_DefaultArgumentUsesConfigured ==
    (TimedWaitBuilt /\ op[2].timeout = -1) => waited = <<timeout>>

\* C35: a wait_for_element or wait_for_text called with timeout 0 builds its
\* wait with self.timeout, and one called with a positive timeout builds it
\* with that timeout.
C35_ZeroSubstituted ==
    TimedWaitBuilt =>
        /\ op[2].timeout = 0 => waited = <<timeout>>
        /\ op[2].timeout > 0 => waited = <<op[2].timeout>>

\* C35 case: wait_for_text with timeout 0 after set_timeout changed the
\* configured timeout
C35_Witness ==
    /\ op[1] = "wait_for_text"
    /\ op[2].timeout = 0
    /\ timeout # DefaultTimeout
    /\ waited = <<timeout>>

==============================================================================
